---- MODULE Spec2Model ----
(***************************************************************************)
(* Model of the MonoProject backend: the relational tables of              *)
(* django_api/api/monobank/models.py, the ingestion handlers (webhook      *)
(* view, Celery polling tasks, account sync), the jar month aggregation    *)
(* and the tg_id based access control of monobank/views.py.                *)
(*                                                                         *)
(* Tables are sets of rows.  A row's foreign key holds the primary key of  *)
(* the row it refers to.  Celery's queue is a bag of task messages.        *)
(***************************************************************************)
EXTENDS Integers, Sequences, FiniteSets, Bags, TLC

VARIABLES
    currencies,     \* Currency rows      [pk, code, name]
    categories,     \* Category rows      [pk, name]
    categoryMSOs,   \* CategoryMSO rows   [pk, mso, category]
    cards,          \* MonoCard rows      [id, monoaccount, currency, balance, is_active]
    jars,           \* MonoJar rows       [id, monoaccount, currency, balance, is_active]
    monoTxs,        \* MonoTransaction rows
    jarTxs,         \* JarTransaction rows
    tasks,          \* bag of Celery task messages waiting for a worker
    sync,           \* where a running create_cards_jars call stands
    family,         \* the family links between users: a set of {tg_id, tg_id}
    crontabs,       \* CrontabSchedule rows of the periodic task scheduler
    periodicTasks,  \* PeriodicTask rows of the periodic task scheduler
    manager,        \* the RequestManager of the chat bot
    requests,       \* the webhook POSTs the web workers are in the middle of
    syncLog,        \* history: the create_cards_jars call that started last
    chat,           \* the chat bot's FSM state of each Telegram user
    last            \* what the last operation answered

vars == <<currencies, categories, categoryMSOs, cards, jars, monoTxs, jarTxs,
          tasks, sync, family, crontabs, periodicTasks, manager, requests, syncLog, chat, last>>

\* The tables of django_celery_beat
beat == <<crontabs, periodicTasks>>

\* No schedule and no periodic task yet, and the chat bot has not asked
\* for a token.
NoBeat == crontabs = {} /\ periodicTasks = {}

NewManager == [refresh_token |-> {}]

\* The web workers that serve webhook POSTs at the same time
Workers == {1, 2}

\* The history of create_cards_jars calls is kept by the specifications that
\* start from StartSyncLog; the others leave it at NoSync.
NoSync == [recorded |-> FALSE]
StartSyncLog == [recorded |-> TRUE, started |-> <<>>]

\* The history after create_cards_jars(data) started on account tg_id: the
\* call, and the accounts that upsert tasks of earlier calls still wait for.
SyncLogged(tg_id, data) ==
    IF syncLog.recorded
    THEN [recorded |-> TRUE,
          started |-> <<[account |-> tg_id, data |-> data,
                         earlier |-> {t.target : t \in BagToSet(tasks)}]>>]
    ELSE syncLog

\* The Telegram users who talk to the chat bot, none of them in an FSM state
ChatUsers == {1, 2}
NoChats == [u \in ChatUsers |-> {}]

\* No worker is in the middle of a webhook POST.
NoRequests == [w \in Workers |-> [pc |-> "idle"]]

tables == <<currencies, categories, categoryMSOs, cards, jars, monoTxs, jarTxs>>

-----------------------------------------------------------------------------
(* Bounds of the model *)

NumUsers == 2          \* users, each with one MonoAccount
MaxTx == 1             \* statement item ids 1..MaxTx
MaxTasks == 2          \* task messages waiting at a time
MaxMSO == 3            \* CategoryMSO rows

TgIds == 1..NumUsers
TxIds == 1..MaxTx
CardIds == {"c1", "c2"}
JarIds == {"j1"}
CurrencyCodes == {980, 840}
MccCodes == {2, 3}
PayloadTimes == {0}
PayloadAmounts == {-500}
PayloadBalances == {1000}

-----------------------------------------------------------------------------
(* The tables *)

\* MonoAccount: one per user, mono_token unique (models.py 86-91).
MonoAccounts == {[user |-> u, mono_token |-> "token" \o ToString(u)] : u \in TgIds}

AccountOfUser(tg_id) == CHOOSE a \in MonoAccounts : a.user = tg_id

\* The `name` of the category that unknown mcc values are filed under.
DefaultCategoryName == "Inshe"

\* The pk an AutoField gives the next row of a table nothing is deleted from.
NextPk(table) == Cardinality(table) + 1

RowsWhere(table, field, value) == {r \in table : r[field] = value}

Exists(table, field, value) == RowsWhere(table, field, value) # {}

\* objects.get(field=value) on a table where the rows found are one.
Get(table, field, value) == CHOOSE r \in table : r[field] = value

\* Model.save() of a row with a given primary key: UPDATE when the key is
\* stored, INSERT otherwise.
SaveRow(table, row) == {r \in table : r.id # row.id} \cup {row}

UAH == [pk |-> 1, code |-> 980, name |-> "UAH"]

InitCatalogue ==
    /\ currencies = {UAH}
    /\ categories = {[pk |-> 1, name |-> "Food"]}
    /\ categoryMSOs = {[pk |-> 1, mso |-> 2, category |-> 1]}

CardRow(id, tg_id, currency, balance, is_active) ==
    [id |-> id, monoaccount |-> tg_id, currency |-> currency,
     balance |-> balance, is_active |-> is_active]

\* MonoJar: is_budget defaults to False, invested to 0.
JarRow(id, tg_id, currency, balance, is_active) ==
    [id |-> id, monoaccount |-> tg_id, currency |-> currency, balance |-> balance,
     is_budget |-> FALSE, invested |-> 0, is_active |-> is_active]

Idle == [pc |-> "idle"]

-----------------------------------------------------------------------------
(* Ingestion helpers: currencies and categories *)

\* Currency.create_unknown_currency: a new row named "XXX".
create_unknown_currency(curs, currency_code) ==
    curs \cup {[pk |-> NextPk(curs), code |-> currency_code, name |-> "XXX"]}

\* try: Currency.objects.get(code=...) except DoesNotExist: create_unknown_currency
\* The Currency table after the lookup of a payload's currency code.
CurrenciesAfterLookup(curs, currency_code) ==
    IF Exists(curs, "code", currency_code)
    THEN curs
    ELSE create_unknown_currency(curs, currency_code)

\* The Currency the ingested entity is linked to.
LookupCurrency(curs, currency_code) ==
    Get(CurrenciesAfterLookup(curs, currency_code), "code", currency_code).pk

\* try: mso = transaction_data.pop("mcc") except KeyError: mso = CategoryMSO.objects.count()
\* A payload's "mcc" is a set: empty when the key is absent, else the one value.
PayloadMso(data, msos) ==
    IF data.mcc = {} THEN Cardinality(msos) ELSE CHOOSE m \in data.mcc : TRUE

\* create() in place of get_or_create(): a default category per unknown mcc.
CategoriesAfterDefault_create(cats) ==
    cats \cup {[pk |-> NextPk(cats), name |-> DefaultCategoryName]}

\* Category.objects.get_or_create(name=<default>)
CategoriesAfterDefault(cats) ==
    IF Exists(cats, "name", DefaultCategoryName)
    THEN cats
    ELSE cats \cup {[pk |-> NextPk(cats), name |-> DefaultCategoryName]}

\* try: CategoryMSO.objects.get(mso=mso) except ObjectDoesNotExist: get_or_create
\* the default category and create the CategoryMSO under it.
\* Gives the two tables afterwards and the pk of the CategoryMSO found or made.
ResolveMcc(cats, msos, mso) ==
    IF Exists(msos, "mso", mso)
    THEN [categories |-> cats, categoryMSOs |-> msos, mcc |-> Get(msos, "mso", mso).pk]
    ELSE LET cats2 == CategoriesAfterDefault(cats)
             row == [pk |-> NextPk(msos), mso |-> mso,
                     category |-> Get(cats2, "name", DefaultCategoryName).pk]
         IN [categories |-> cats2, categoryMSOs |-> msos \cup {row}, mcc |-> row.pk]

-----------------------------------------------------------------------------
(* Transactions *)

\* A statement item as the bank sends it (webhook body or polled statement).
StatementItems ==
    [id : TxIds, time : PayloadTimes, amount : PayloadAmounts,
     balance : PayloadBalances, hold : BOOLEAN,
     mcc : {{}} \cup {{m} : m \in MccCodes}, currency_code : CurrencyCodes]

\* The row a statement item is stored as, on account (card or jar) `account`.
TxRow(account, mcc, currency, item) ==
    [id |-> item.id, account |-> account, time |-> item.time,
     amount |-> item.amount, balance |-> item.balance, hold |-> item.hold,
     mcc |-> mcc, currency |-> currency]

\* Manager.get_or_create(**fields) with the primary key among the fields: the
\* row is found when a stored row agrees on every field; otherwise the INSERT
\* hits the primary key of a stored row (IntegrityError) or stores the row.
get_or_create(table, row) ==
    IF row \in table THEN [table |-> table, exc |-> ""]
    ELSE IF Exists(table, "id", row.id) THEN [table |-> table, exc |-> "IntegrityError"]
    ELSE [table |-> table \cup {row}, exc |-> ""]

-----------------------------------------------------------------------------
(* Celery tasks *)

\* retry_kwargs={"max_retries": 5, ...}
max_retries == 5

Task(name, target, data) ==
    [name |-> name, target |-> target, data |-> data, retries |-> 0]

Waiting(name) == {t \in BagToSet(tasks) : t.name = name}

\* The retry without max_retries: a task that raised is always sent again.
TasksAfterRun_unbounded(t, exc) ==
    IF exc = ""
    THEN tasks (-) SetToBag({t})
    ELSE (tasks (-) SetToBag({t})) (+) SetToBag({[t EXCEPT !.retries = @ + 1]})

\* autoretry_for=(Exception,): a task that raised is sent again with
\* retries + 1 until max_retries is reached; a task that returned is done.
TasksAfterRun(t, exc) ==
    IF exc = "" \/ t.retries >= max_retries
    THEN tasks (-) SetToBag({t})
    ELSE (tasks (-) SetToBag({t})) (+) SetToBag({[t EXCEPT !.retries = @ + 1]})

Answer(op, status, exc) == [op |-> op, status |-> status, exc |-> exc]

-----------------------------------------------------------------------------
(* Polling: the statement of a card or jar, one task per statement item *)

\* What create_transaction_from_webhook / create_jar_transaction_from_webhook
\* share: the account lookup, the category and currency resolution and the
\* get_or_create of the row.  Rows written before an exception stay written
\* (autocommit).  `exc` is the exception get_or_create or the lookup raised.
IngestStatementItem(accounts, txs, card_id, transaction_data) ==
    IF ~Exists(accounts, "id", card_id)
    THEN [currencies |-> currencies, categories |-> categories,
          categoryMSOs |-> categoryMSOs, txs |-> txs, exc |-> "DoesNotExist"]
    ELSE LET r == ResolveMcc(categories, categoryMSOs,
                             PayloadMso(transaction_data, categoryMSOs))
             row == TxRow(card_id, r.mcc,
                          LookupCurrency(currencies, transaction_data.currency_code),
                          transaction_data)
             g == get_or_create(txs, row)
         IN [currencies |-> CurrenciesAfterLookup(currencies,
                                                  transaction_data.currency_code),
             categories |-> r.categories, categoryMSOs |-> r.categoryMSOs,
             txs |-> g.table, exc |-> g.exc]

\* MonoTransaction.create_transaction_from_webhook: `except IntegrityError: pass`.
create_transaction_from_webhook(card_id, transaction_data) ==
    LET r == IngestStatementItem(cards, monoTxs, card_id, transaction_data)
    IN [r EXCEPT !.exc = IF @ = "IntegrityError" THEN "" ELSE @]

\* JarTransaction.create_jar_transaction_from_webhook: get_or_create unguarded.
create_jar_transaction_from_webhook(card_id, transaction_data) ==
    IngestStatementItem(jars, jarTxs, card_id, transaction_data)

\* A worker runs the create_transaction_from_webhook task that the statement
\* poll of the stored card `card_id` (MonoCard.get_transactions) sent for the
\* statement item `transaction_data` of the bank's answer.
RunCreateTransaction(card_id, transaction_data) ==
    /\ Exists(cards, "id", card_id)
    /\ LET r == create_transaction_from_webhook(card_id, transaction_data)
       IN /\ Cardinality(r.categoryMSOs) <= MaxMSO
          /\ currencies' = r.currencies
          /\ categories' = r.categories
          /\ categoryMSOs' = r.categoryMSOs
          /\ monoTxs' = r.txs
          /\ last' = Answer("create_transaction_from_webhook", 0, r.exc)
    /\ UNCHANGED <<cards, jars, jarTxs, tasks, sync, family, beat, manager, requests, syncLog, chat>>

\* A worker runs the create_jar_transaction_from_webhook task that the
\* statement poll of the stored jar `card_id` (MonoJar.get_transactions) sent.
RunCreateJarTransaction(card_id, transaction_data) ==
    /\ Exists(jars, "id", card_id)
    /\ LET r == create_jar_transaction_from_webhook(card_id, transaction_data)
       IN /\ Cardinality(r.categoryMSOs) <= MaxMSO
          /\ currencies' = r.currencies
          /\ categories' = r.categories
          /\ categoryMSOs' = r.categoryMSOs
          /\ jarTxs' = r.txs
          /\ last' = Answer("create_jar_transaction_from_webhook", 0, r.exc)
    /\ UNCHANGED <<cards, jars, monoTxs, tasks, sync, family, beat, manager, requests, syncLog, chat>>

-----------------------------------------------------------------------------
(* The webhook view *)

\* The body of a webhook POST: the account the statement item belongs to.
WebhookBodies == [account : CardIds \cup JarIds,
                  statement_item : StatementItems]

UserKeys == {""} \cup {a.mono_token : a \in MonoAccounts}

\* TransactionData.parse_obj(request.data): the body's account resolved to the
\* stored MonoCard or MonoJar, its mcc and currency code to the stored
\* CategoryMSO and Currency.  A body without "mcc" fails validation; an
\* account, mcc or currency that is not stored raises MonoDataNotFound.
parse_obj(data) ==
    LET item == data.statement_item
        isCard == Exists(cards, "id", data.account)
        isJar == Exists(jars, "id", data.account)
    IN IF item.mcc = {} THEN [exc |-> "ValidationError"]
       ELSE IF ~(isCard \/ isJar)
               \/ ~Exists(categoryMSOs, "mso", PayloadMso(item, categoryMSOs))
               \/ ~Exists(currencies, "code", item.currency_code)
       THEN [exc |-> "MonoDataNotFound"]
       ELSE LET account == IF isCard THEN Get(cards, "id", data.account)
                           ELSE Get(jars, "id", data.account)
            IN [exc |-> "",
                kind |-> IF isCard THEN "MonoCard" ELSE "MonoJar",
                account |-> account.id,
                mono_token |-> AccountOfUser(account.monoaccount).mono_token,
                row |-> TxRow(account.id,
                              Get(categoryMSOs, "mso", PayloadMso(item, categoryMSOs)).pk,
                              Get(currencies, "code", item.currency_code).pk,
                              item)]

\* The view without its token comparison: any token is taken for the owner's.
account_mismatch_never(parsed, user_key) == FALSE

\* parsed_data.account.monoaccount.mono_token != user_key
account_mismatch(parsed, user_key) == parsed.mono_token # user_key

\* The view without its `exists()` check: every delivery is processed.
AlreadyStored_unchecked(txs, id) == FALSE

\* <Transaction>.objects.filter(id=parsed_data.statement_item.id).exists()
AlreadyStored(txs, id) == Exists(txs, "id", id)

\* _process_card_transaction / _process_jar_transaction: build the row, save().
process_transaction(txs, row) == SaveRow(txs, row)

\* TransactionWebhookApiView.post: the two transaction tables afterwards, the
\* status of the response and the "error" of its body ("" when it has none).
post(user_key, data) ==
    LET same(status, error) ==
            [monoTxs |-> monoTxs, jarTxs |-> jarTxs, status |-> status, error |-> error]
        parsed == parse_obj(data)
    IN IF user_key = "" THEN same(403, "token query param is not specified")
       ELSE IF parsed.exc = "ValidationError" THEN same(422, "Wrong request structure")
       ELSE IF parsed.exc = "MonoDataNotFound" THEN same(404, "Some data not found")
       ELSE IF account_mismatch(parsed, user_key)
       THEN same(403, "invalid token or account missmatch")
       ELSE IF parsed.kind = "MonoCard"
       THEN IF AlreadyStored(monoTxs, parsed.row.id) THEN same(200, "")
            ELSE [monoTxs |-> process_transaction(monoTxs, parsed.row),
                  jarTxs |-> jarTxs, status |-> 201, error |-> ""]
       ELSE IF AlreadyStored(jarTxs, parsed.row.id) THEN same(200, "")
            ELSE [monoTxs |-> monoTxs,
                  jarTxs |-> process_transaction(jarTxs, parsed.row),
                  status |-> 201, error |-> ""]

\* The response of the view: its status and the "error" of its body.
WebhookAnswer(status, error) ==
    [op |-> "webhook", status |-> status, exc |-> "", error |-> error]

WebhookPost(user_key, data) ==
    /\ LET r == post(user_key, data)
       IN /\ monoTxs' = r.monoTxs
          /\ jarTxs' = r.jarTxs
          /\ last' = WebhookAnswer(r.status, r.error)
    /\ UNCHANGED <<currencies, categories, categoryMSOs, cards, jars, tasks, sync, family, beat, manager, requests, syncLog, chat>>

-----------------------------------------------------------------------------
(* The account sync: create_cards_jars and the card and jar upsert tasks *)

CardBalances == {1000}
JarBalances == {1000, 2000}

\* A card or jar as the bank's client-info lists it.
CardPayloads == [id : CardIds, currency_code : CurrencyCodes, balance : CardBalances]
JarPayloads == [id : JarIds, currency_code : CurrencyCodes, balance : JarBalances]

DistinctIds(payloads) == \A p, q \in payloads : p.id = q.id => p = q

\* The sets of at most n elements of S.
RECURSIVE SubsetsUpTo(_, _)
SubsetsUpTo(S, n) ==
    IF n = 0 THEN {{}}
    ELSE LET prev == SubsetsUpTo(S, n - 1)
         IN prev \cup {s \cup {x} : s \in prev, x \in S}

\* The bank's client-info answers: "accounts" lists cards, "jars" lists jars.
ClientInfos ==
    {[accounts |-> cs, jars |-> js] :
        cs \in {c \in SubsetsUpTo(CardPayloads, MaxTasks) : DistinctIds(c)},
        js \in {j \in SubsetsUpTo(JarPayloads, MaxTasks) : DistinctIds(j)}}

\* active_card_ids / active_jar_ids
ActiveIds(payloads) == {p.id : p \in payloads}

\* The update without `filter(monoaccount=self)`: every account's rows.
MarkInactive_any_account(table, tg_id, active_ids) ==
    {IF r.id \notin active_ids THEN [r EXCEPT !.is_active = FALSE] ELSE r : r \in table}

\* <Model>.objects.filter(monoaccount=self).exclude(id__in=ids).update(is_active=False)
MarkInactive(table, tg_id, active_ids) ==
    {IF r.monoaccount = tg_id /\ r.id \notin active_ids
     THEN [r EXCEPT !.is_active = FALSE] ELSE r : r \in table}

\* The tasks create_cards_jars sends: one per listed card, one per listed jar.
UpsertTasks(tg_id, data) ==
    SetToBag({Task("create_card_from_webhook", tg_id, c) : c \in data.accounts})
    (+) SetToBag({Task("create_jar_from_webhook", tg_id, j) : j \in data.jars})

\* MonoAccount.create_cards_jars, first half: the cards and jars the bank no
\* longer lists are marked inactive.  `data` is the bank's answer.
CreateCardsJarsMark(tg_id, data) ==
    /\ sync = Idle
    /\ BagCardinality(tasks) + Cardinality(data.accounts) + Cardinality(data.jars)
          <= MaxTasks
    /\ cards' = MarkInactive(cards, tg_id, ActiveIds(data.accounts))
    /\ jars' = MarkInactive(jars, tg_id, ActiveIds(data.jars))
    /\ sync' = [pc |-> "dispatch", account |-> tg_id, data |-> data]
    /\ syncLog' = SyncLogged(tg_id, data)
    /\ last' = Answer("create_cards_jars", 0, "")
    /\ UNCHANGED <<currencies, categories, categoryMSOs, monoTxs, jarTxs, tasks, family, beat, manager, requests, chat>>

\* MonoAccount.create_cards_jars, second half: the upsert tasks are sent.
CreateCardsJarsDispatch ==
    /\ sync # Idle
    /\ tasks' = tasks (+) UpsertTasks(sync.account, sync.data)
    /\ sync' = Idle
    /\ last' = Answer("create_cards_jars", 0, "")
    /\ UNCHANGED <<tables, family, beat, manager, requests, syncLog, chat>>

\* The upsert that stores the row built for the task's account whether the id
\* is stored or not.
Upsert_replace(table, row, card_data) == SaveRow(table, row)

\* The body both upsert tasks share.  A stored row takes the payload's fields
\* (setattr over card_data, from which currency_code was popped) and
\* is_active = True; a new row is created for the account with the currency.
Upsert(table, row, card_data) ==
    IF Exists(table, "id", card_data.id)
    THEN SaveRow(table, [Get(table, "id", card_data.id) EXCEPT
                             !.balance = card_data.balance, !.is_active = TRUE])
    ELSE table \cup {row}

\* MonoCard.create_card_from_webhook: the Currency and MonoCard tables afterwards.
create_card_from_webhook(tg_id, card_data) ==
    [currencies |-> CurrenciesAfterLookup(currencies, card_data.currency_code),
     table |-> Upsert(cards,
                      CardRow(card_data.id, AccountOfUser(tg_id).user,
                              LookupCurrency(currencies, card_data.currency_code),
                              card_data.balance, TRUE),
                      card_data)]

\* MonoJar.create_jar_from_webhook: the Currency and MonoJar tables afterwards.
create_jar_from_webhook(tg_id, jar_data) ==
    [currencies |-> CurrenciesAfterLookup(currencies, jar_data.currency_code),
     table |-> Upsert(jars,
                      JarRow(jar_data.id, AccountOfUser(tg_id).user,
                             LookupCurrency(currencies, jar_data.currency_code),
                             jar_data.balance, TRUE),
                      jar_data)]

\* A worker runs a waiting create_card_from_webhook task.  `bank` is the answer
\* to the statement request of update_transactions: "ok", or "error" when
\* get_transactions raises MonoBankError after the card was saved.
RunCreateCard(t, bank) ==
    /\ t \in Waiting("create_card_from_webhook")
    /\ LET r == create_card_from_webhook(t.target, t.data)
           exc == IF bank = "ok" THEN "" ELSE "MonoBankError"
       IN /\ currencies' = r.currencies
          /\ cards' = r.table
          /\ tasks' = TasksAfterRun(t, exc)
          /\ last' = Answer("create_card_from_webhook", 0, exc)
    /\ UNCHANGED <<categories, categoryMSOs, jars, monoTxs, jarTxs, sync, family, beat, manager, requests, syncLog, chat>>

\* A worker runs a waiting create_jar_from_webhook task.
RunCreateJar(t, bank) ==
    /\ t \in Waiting("create_jar_from_webhook")
    /\ LET r == create_jar_from_webhook(t.target, t.data)
           exc == IF bank = "ok" THEN "" ELSE "MonoBankError"
       IN /\ currencies' = r.currencies
          /\ jars' = r.table
          /\ tasks' = TasksAfterRun(t, exc)
          /\ last' = Answer("create_jar_from_webhook", 0, exc)
    /\ UNCHANGED <<categories, categoryMSOs, cards, monoTxs, jarTxs, sync, family, beat, manager, requests, syncLog, chat>>

-----------------------------------------------------------------------------
(* Transaction ingestion: webhook deliveries and statement polls of the      *)
(* stored cards and jars                                                     *)

Init ==
    /\ InitCatalogue
    /\ cards = {CardRow("c1", 1, 1, 1000, TRUE)}
    /\ jars = {JarRow("j1", NumUsers, 1, 1000, TRUE)}
    /\ monoTxs = {}
    /\ jarTxs = {}
    /\ tasks = EmptyBag
    /\ sync = Idle
    /\ NoBeat
    /\ manager = NewManager
    /\ requests = NoRequests
    /\ syncLog = NoSync
    /\ chat = NoChats
    /\ family = {}
    /\ last = Answer("init", 0, "")

Next ==
    \/ \E k \in UserKeys, d \in WebhookBodies : WebhookPost(k, d)
    \/ \E c \in CardIds, d \in StatementItems : RunCreateTransaction(c, d)
    \/ \E j \in JarIds, d \in StatementItems : RunCreateJarTransaction(j, d)

Spec == Init /\ [][Next]_vars

-----------------------------------------------------------------------------
(* The account sync on its own: client-info answers, upsert tasks, workers *)

BankAnswers == {"ok"}

InitSync ==
    /\ InitCatalogue
    /\ cards = {}
    /\ jars = {}
    /\ monoTxs = {}
    /\ jarTxs = {}
    /\ tasks = EmptyBag
    /\ sync = Idle
    /\ NoBeat
    /\ manager = NewManager
    /\ requests = NoRequests
    /\ syncLog = NoSync
    /\ chat = NoChats
    /\ family = {}
    /\ last = Answer("init", 0, "")

NextSync ==
    \/ \E u \in TgIds, d \in ClientInfos : CreateCardsJarsMark(u, d)
    \/ CreateCardsJarsDispatch
    \/ \E t \in BagToSet(tasks), b \in BankAnswers : RunCreateCard(t, b)
    \/ \E t \in BagToSet(tasks), b \in BankAnswers : RunCreateJar(t, b)

SpecSync == InitSync /\ [][NextSync]_vars

-----------------------------------------------------------------------------
(* Claims about the webhook and the statement polls (Spec) *)

\* The webhook deliveries the claims about accepted deliveries speak of: the
\* body parses and the token is the mono_token of the body's account.
Accepted(user_key, data) ==
    /\ user_key # ""
    /\ parse_obj(data).exc = ""
    /\ parse_obj(data).mono_token = user_key

\* What post does with the accepted delivery (user_key, data) in this state.
C1_Delivery(user_key, data) ==
    LET p == parse_obj(data)
        r == post(user_key, data)
        card == p.kind = "MonoCard"
        before == IF card THEN monoTxs ELSE jarTxs
        after == IF card THEN r.monoTxs ELSE r.jarTxs
    IN IF Exists(before, "id", data.statement_item.id)
       THEN r.status = 200 /\ r.monoTxs = monoTxs /\ r.jarTxs = jarTxs
       ELSE /\ r.status = 201
            /\ after = before \cup {p.row}
            /\ p.row.id = data.statement_item.id /\ p.row.account = data.account
            /\ p.row.hold = data.statement_item.hold
            /\ Cardinality(RowsWhere(after, "id", p.row.id)) = 1
            /\ IF card THEN r.jarTxs = jarTxs ELSE r.monoTxs = monoTxs

\* C1: a webhook POST with the account's token stores, on the first delivery
\* of a statement item id, exactly one transaction (in MonoTransaction for a
\* card, in JarTransaction for a jar) and answers 201; a delivery of an id that
\* is stored answers 200 and changes nothing at all; a webhook POST writes
\* nothing but the one transaction of a 201.
C1_WebhookIdempotent ==
    /\ [](\A k \in UserKeys, d \in WebhookBodies : Accepted(k, d) => C1_Delivery(k, d))
    /\ [][last'.op = "webhook" =>
            /\ UNCHANGED <<currencies, categories, categoryMSOs, cards, jars,
                           tasks, sync, family, beat, manager, requests, syncLog, chat>>
            /\ last'.status # 201 => UNCHANGED <<monoTxs, jarTxs>>
            /\ last'.status = 201 =>
                  Cardinality(monoTxs') + Cardinality(jarTxs')
                     = Cardinality(monoTxs) + Cardinality(jarTxs) + 1]_vars

\* A delivery was answered 200 while both tables hold the one transaction.
C1_Witness ==
    /\ last.op = "webhook" /\ last.status = 200
    /\ Cardinality(monoTxs) = 1 /\ Cardinality(jarTxs) = 1

OneRowPerId(txs) == \A t \in txs : RowsWhere(txs, "id", t.id) = {t}

\* C2: a polling task that receives a statement item whose id is stored
\* returns without raising, stores no second transaction and leaves the stored
\* one as it is; no table ever holds two transactions with one id.
C2_PollDedup ==
    /\ [](OneRowPerId(monoTxs) /\ OneRowPerId(jarTxs))
    /\ [][\A c \in CardIds, d \in StatementItems :
            (Exists(monoTxs, "id", d.id) /\ RunCreateTransaction(c, d))
                => (last'.exc = "" /\ monoTxs' = monoTxs)]_vars
    /\ [][\A j \in JarIds, d \in StatementItems :
            (Exists(jarTxs, "id", d.id) /\ RunCreateJarTransaction(j, d))
                => (last'.exc = "" /\ jarTxs' = jarTxs)]_vars

\* What a polling task's result r does to the category tables for mcc value m.
C4_Resolved(r, m) ==
    IF Exists(categoryMSOs, "mso", m)
    THEN r.categoryMSOs = categoryMSOs /\ r.categories = categories
    ELSE /\ \E row \in r.categoryMSOs :
               /\ row \notin categoryMSOs
               /\ r.categoryMSOs = categoryMSOs \cup {row}
               /\ row.mso = m
               /\ \E c \in r.categories :
                      c.name = DefaultCategoryName /\ c.pk = row.category
         /\ IF Exists(categories, "name", DefaultCategoryName)
            THEN r.categories = categories
            ELSE \E c \in r.categories :
                    /\ c \notin categories
                    /\ r.categories = categories \cup {c}
                    /\ c.name = DefaultCategoryName

\* C4: polling ingestion of a transaction whose mcc has no CategoryMSO creates
\* exactly one CategoryMSO with that mso under the default category, which is
\* created when absent and reused otherwise; a stored CategoryMSO is reused
\* and nothing is created; there is never more than one CategoryMSO per mso
\* nor more than one default category.
C4_UnknownCategories ==
    /\ [](\A c \in CardIds, d \in StatementItems, m \in MccCodes :
            (Exists(cards, "id", c) /\ d.mcc = {m})
                => C4_Resolved(create_transaction_from_webhook(c, d), m))
    /\ [](\A j \in JarIds, d \in StatementItems, m \in MccCodes :
            (Exists(jars, "id", j) /\ d.mcc = {m})
                => C4_Resolved(create_jar_transaction_from_webhook(j, d), m))
    /\ [](\A x, y \in categoryMSOs : x.mso = y.mso => x = y)
    /\ [](Cardinality(RowsWhere(categories, "name", DefaultCategoryName)) <= 1)

\* Polls made a CategoryMSO for each unknown mcc under the one default
\* category, beside the CategoryMSO that was there.
C4_Witness ==
    /\ last.op = "create_jar_transaction_from_webhook"
    /\ Cardinality(categoryMSOs) = MaxMSO
    /\ \E c \in categories :
          /\ c.name = DefaultCategoryName
          /\ Cardinality(RowsWhere(categoryMSOs, "category", c.pk)) = 2

-----------------------------------------------------------------------------
(* Claims about the account sync (SpecSync) *)

\* The Currency table went from curs to curs2 as the claim says for an
\* ingestion with currency code `code`, and the ingested row `id` of table2
\* is linked to the Currency with that code.
C3_Linked(code, curs, curs2, table2, id) ==
    /\ IF Exists(curs, "code", code)
       THEN curs2 = curs
       ELSE \E row \in curs2 :
               /\ row \notin curs
               /\ curs2 = curs \cup {row}
               /\ row.code = code /\ row.name = "XXX"
    /\ \A r \in RowsWhere(table2, "id", id) :
          r.currency = Get(curs2, "code", code).pk

\* C3: ingesting a card, jar or transaction whose currency code has no
\* Currency creates one Currency with that code, named "XXX", and links the
\* ingested entity to it; a stored Currency is reused and none is created;
\* there is never more than one Currency per code.
C3_UnknownCurrencies ==
    /\ [](\A x, y \in currencies : x.code = y.code => x = y)
    /\ [][\A t \in BagToSet(tasks), b \in BankAnswers :
            RunCreateCard(t, b) =>
                C3_Linked(t.data.currency_code, currencies, currencies', cards',
                          t.data.id)]_vars
    /\ [][\A t \in BagToSet(tasks), b \in BankAnswers :
            RunCreateJar(t, b) =>
                C3_Linked(t.data.currency_code, currencies, currencies', jars',
                          t.data.id)]_vars
    /\ [][\A c \in CardIds, d \in StatementItems :
            (~Exists(monoTxs, "id", d.id) /\ RunCreateTransaction(c, d)) =>
                C3_Linked(d.currency_code, currencies, currencies', monoTxs', d.id)]_vars
    /\ [][\A j \in JarIds, d \in StatementItems :
            (~Exists(jarTxs, "id", d.id) /\ RunCreateJarTransaction(j, d)) =>
                C3_Linked(d.currency_code, currencies, currencies', jarTxs', d.id)]_vars

\* The rows of `table` after the first half of create_cards_jars on account
\* tg_id with the listed ids: the account's unlisted rows inactive, every
\* other row as it was.
C5_Marked(table, table2, tg_id, ids) ==
    /\ \A r \in table :
          IF r.monoaccount = tg_id /\ r.id \notin ids
          THEN [r EXCEPT !.is_active = FALSE] \in table2
          ELSE r \in table2
    /\ {r.id : r \in table2} = {r.id : r \in table}
    /\ Cardinality(table2) = Cardinality(table)

NewTasks == {t \in BagToSet(tasks') : CopiesIn(t, tasks') > CopiesIn(t, tasks)}

\* C5: create_cards_jars(data) sets is_active=False on every card of the
\* account whose id is not among the ids of data["accounts"] and on every jar
\* of the account whose id is not among the ids of data["jars"], and no upsert
\* task is sent before that: the step that marks sends nothing, and upsert
\* tasks are sent only by the call's second half, after its marking.
C5_StaleMarkedInactive ==
    /\ [][(sync = Idle /\ sync' # Idle) =>
            /\ C5_Marked(cards, cards', sync'.account, {p.id : p \in sync'.data.accounts})
            /\ C5_Marked(jars, jars', sync'.account, {p.id : p \in sync'.data.jars})
            /\ tasks' = tasks]_vars
    /\ [][(\E t \in NewTasks : t.retries = 0) =>
            /\ sync # Idle /\ sync' = Idle
            /\ tasks' = tasks (+) UpsertTasks(sync.account, sync.data)
            /\ cards' = cards /\ jars' = jars]_vars

\* A sync has just marked: a card of its account that the bank no longer
\* lists is inactive, a listed one of the account and an unlisted one of
\* another account are still active, and the upsert task is not sent yet.
C5_Witness ==
    /\ sync # Idle
    /\ tasks = EmptyBag
    /\ sync.data.accounts # {}
    /\ \E a, b \in cards, j \in jars :
          /\ a.monoaccount = sync.account /\ b.monoaccount = sync.account
          /\ a.id \in ActiveIds(sync.data.accounts) /\ a.is_active
          /\ b.id \notin ActiveIds(sync.data.accounts) /\ ~b.is_active
          /\ j.monoaccount # sync.account /\ j.is_active
          /\ j.id \notin ActiveIds(sync.data.jars)

-----------------------------------------------------------------------------
(* Text and dates.  A text that the code takes apart (a query parameter, an  *)
(* ISO date) is a sequence of one-character strings.                         *)

Digits == <<"0", "1", "2", "3", "4", "5", "6", "7", "8", "9">>

IsDigit(c) == \E i \in 1..10 : Digits[i] = c

DigitVal(c) == (CHOOSE i \in 1..10 : Digits[i] = c) - 1

\* int() of a text of digits
RECURSIVE ParseInt(_)
ParseInt(s) ==
    IF s = <<>> THEN 0
    ELSE 10 * ParseInt(SubSeq(s, 1, Len(s) - 1)) + DigitVal(s[Len(s)])

\* "%0<width>d" of a number that is not negative
RECURSIVE ZeroPad(_, _)
ZeroPad(n, width) ==
    IF width <= 1 /\ n < 10 THEN <<Digits[n + 1]>>
    ELSE ZeroPad(n \div 10, width - 1) \o <<Digits[(n % 10) + 1]>>

\* datetime.date(year, month, day)
Date(year, month, day) == [year |-> year, month |-> month, day |-> day]

IsLeap(year) == year % 4 = 0 /\ (year % 100 # 0 \/ year % 400 = 0)

DaysInMonth(year, month) ==
    IF month = 2 THEN (IF IsLeap(year) THEN 29 ELSE 28)
    ELSE IF month \in {4, 6, 9, 11} THEN 30 ELSE 31

DaysInYear(year) == IF IsLeap(year) THEN 366 ELSE 365

\* the days from 1970-01-01 to the first day of `year`
RECURSIVE DaysToYear(_)
DaysToYear(year) ==
    IF year = 1970 THEN 0
    ELSE IF year > 1970 THEN DaysToYear(year - 1) + DaysInYear(year - 1)
    ELSE DaysToYear(year + 1) - DaysInYear(year)

RECURSIVE DaysToMonth(_, _)
DaysToMonth(year, month) ==
    IF month = 1 THEN 0
    ELSE DaysToMonth(year, month - 1) + DaysInMonth(year, month - 1)

SecondsPerDay == 86400

\* The zone of naive datetimes: the process runs in UTC.
utcoffset == 0

\* datetime.combine(d, datetime.min.time()).timestamp()
timestamp(d) ==
    (DaysToYear(d.year) + DaysToMonth(d.year, d.month) + d.day - 1) * SecondsPerDay
        - utcoffset

RECURSIVE YearOfDay(_, _)
YearOfDay(year, days) ==
    IF days < 0 THEN YearOfDay(year - 1, days + DaysInYear(year - 1))
    ELSE IF days >= DaysInYear(year) THEN YearOfDay(year + 1, days - DaysInYear(year))
    ELSE [year |-> year, days |-> days]

RECURSIVE MonthOfDay(_, _, _)
MonthOfDay(year, month, days) ==
    IF days >= DaysInMonth(year, month)
    THEN MonthOfDay(year, month + 1, days - DaysInMonth(year, month))
    ELSE Date(year, month, days + 1)

\* Floor division, as Python's //.
FloorDiv(a, b) == IF a >= 0 THEN a \div b ELSE -((-a + b - 1) \div b)

\* datetime.fromtimestamp(ts), its date
fromtimestamp(ts) ==
    LET y == YearOfDay(1970, FloorDiv(ts + utcoffset, SecondsPerDay))
    IN  MonthOfDay(y.year, 1, y.days)

\* date.isoformat(): "%04d-%02d-%02d"
isoformat(d) ==
    ZeroPad(d.year, 4) \o <<"-">> \o ZeroPad(d.month, 2) \o <<"-">> \o ZeroPad(d.day, 2)

AllDigits(s) == \A i \in 1..Len(s) : IsDigit(s[i])

\* The directives of "%Y-%m-%d" as _strptime matches them:
\*   %Y \d\d\d\d     %m 1[0-2]|0[1-9]|[1-9]     %d 3[01]|[12]\d|0[1-9]|[1-9]| [1-9]
MatchesMonth(s) ==
    /\ Len(s) \in {1, 2}
    /\ AllDigits(s)
    /\ ParseInt(s) \in 1..12

MatchesDay(s) ==
    /\ Len(s) \in {1, 2}
    /\ \/ AllDigits(s) /\ ParseInt(s) \in 1..31
       \/ Len(s) = 2 /\ s[1] = " " /\ IsDigit(s[2]) /\ s[2] # "0"

DayValue(s) == IF s[1] = " " THEN DigitVal(s[2]) ELSE ParseInt(s)

\* datetime.strptime(text, "%Y-%m-%d").date(): the text has to match the whole
\* format (anything left over is "unconverted data remains") and name a day
\* of the calendar (year 1 at least, day within the month); ValueError else.
strptime(text) ==
    LET n == Len(text)
        fits(lm, ld) ==
            /\ n = 4 + 1 + lm + 1 + ld
            /\ AllDigits(SubSeq(text, 1, 4))
            /\ text[5] = "-"
            /\ MatchesMonth(SubSeq(text, 6, 5 + lm))
            /\ text[6 + lm] = "-"
            /\ MatchesDay(SubSeq(text, 7 + lm, n))
        splits == {p \in {1, 2} \X {1, 2} : fits(p[1], p[2])}
    IN  IF splits = {} THEN [exc |-> "ValueError", date |-> Date(0, 0, 0)]
        ELSE LET p == CHOOSE q \in splits : TRUE
                 year == ParseInt(SubSeq(text, 1, 4))
                 month == ParseInt(SubSeq(text, 6, 5 + p[1]))
                 day == DayValue(SubSeq(text, 7 + p[1], n))
             IN  IF year >= 1 /\ day <= DaysInMonth(year, month)
                 THEN [exc |-> "", date |-> Date(year, month, day)]
                 ELSE [exc |-> "ValueError", date |-> Date(0, 0, 0)]

\* str.split(","): the pieces between the commas, empty pieces included
RECURSIVE split(_)
split(s) ==
    IF \A i \in 1..Len(s) : s[i] # ","
    THEN <<s>>
    ELSE LET i == CHOOSE k \in 1..Len(s) :
                      s[k] = "," /\ \A m \in 1..(k - 1) : s[m] # ","
         IN  <<SubSeq(s, 1, i - 1)>> \o split(SubSeq(s, i + 1, Len(s)))

UpperCase == <<"T", "R", "U", "E", "Y", "S", "F">>
LowerCase == <<"t", "r", "u", "e", "y", "s", "f">>

\* str.lower()
lower(s) ==
    [i \in 1..Len(s) |->
        IF \E k \in 1..Len(UpperCase) : UpperCase[k] = s[i]
        THEN LowerCase[CHOOSE k \in 1..Len(UpperCase) : UpperCase[k] = s[i]]
        ELSE s[i]]

\* An optional value (a query parameter that may be missing, None) is the
\* empty set or the set of the one value.
None == {}

Some(value) == {value}

ValueOf(param) == CHOOSE value \in param : TRUE

\* Python's truth of an optional text: None and "" are false
Truthy(param) == param # None /\ ValueOf(param) # <<>>

-----------------------------------------------------------------------------
(* Access control: who may see whose cards, jars and transactions *)

NumMembers == 3        \* users of the family graph, tg_ids 1..NumMembers

Members == 1..NumMembers

\* The tg_id of a user as the text a request carries it in.
TgText(tg_id) == ZeroPad(tg_id, 1)

\* request.user
Requesters == [tg_id : Members, is_superuser : BOOLEAN]

\* The users linked to tg_id in `family`, directly.
FamilyOf(tg_id) == {v \in Members : {tg_id, v} \in family /\ v # tg_id}

RECURSIVE FamilyClosure(_)
FamilyClosure(ids) ==
    LET more == ids \cup UNION {FamilyOf(u) : u \in ids}
    IN  IF more = ids THEN ids ELSE FamilyClosure(more)

\* User.get_related_tg_ids(include_self, recursive): the tg_ids of the user's
\* family, the direct links only unless recursive, with the user's own.
get_related_tg_ids(tg_id, include_self, recursive) ==
    LET related == IF recursive THEN FamilyClosure({tg_id}) ELSE FamilyOf(tg_id)
    IN  {TgText(u) : u \in (related \ {tg_id}) \cup (IF include_self THEN {tg_id} ELSE {})}

\* User.expand_tg_ids_with_family(tg_ids): the given tg_ids and the family of
\* each of them that is a user.
expand_tg_ids_with_family(tg_ids) ==
    tg_ids \cup UNION {get_related_tg_ids(u, TRUE, FALSE) :
                          u \in {m \in Members : TgText(m) \in tg_ids}}

Range(seq) == {seq[i] : i \in 1..Len(seq)}

\* What get_accessible_user_tg_ids returns: None (no filtering) or tg_ids.
NoFilter == [filtered |-> FALSE, tg_ids |-> {}]

Filter(tg_ids) == [filtered |-> TRUE, tg_ids |-> tg_ids]

Requested(users_param, with_family) ==
    LET ids == Range(split(ValueOf(users_param)))
    IN  IF with_family THEN expand_tg_ids_with_family(ids) ELSE ids

get_accessible_user_tg_ids_requested(user, action, users_param, with_family) ==
    IF user.is_superuser
    THEN IF Truthy(users_param) /\ action = "list"
         THEN Filter(Requested(users_param, with_family))
         ELSE NoFilter
    ELSE IF Truthy(users_param)
         THEN Filter(Requested(users_param, with_family))
         ELSE Filter(get_related_tg_ids(user.tg_id, TRUE, FALSE))

\* MonoBankAccessMixin.get_accessible_user_tg_ids
get_accessible_user_tg_ids(user, action, users_param, with_family) ==
    IF user.is_superuser
    THEN IF Truthy(users_param) /\ action = "list"
         THEN Filter(Requested(users_param, with_family))
         ELSE NoFilter
    ELSE LET accessible_ids == get_related_tg_ids(user.tg_id, TRUE, FALSE)
         IN  IF Truthy(users_param)
             THEN Filter(Requested(users_param, with_family) \cap accessible_ids)
             ELSE Filter(accessible_ids)

\* queryset.filter(<owner>__tg_id__in=accessible_tg_ids), when not None; `rows`
\* gives the owner's tg_id of each row of the queryset.
FilterOwners(rows, accessible) ==
    IF accessible.filtered
    THEN {r \in DOMAIN rows : TgText(rows[r]) \in accessible.tg_ids}
    ELSE DOMAIN rows

\* The tg_id of the user whose MonoAccount a card or jar belongs to.
AccountOwner(account) == account.monoaccount

MonoTxOwner(tx) == Get(cards, "id", tx.account).monoaccount

JarTxOwner(tx) == Get(jars, "id", tx.account).monoaccount

Flag_exact(param) ==
    ValueOf(param) \in {<<"1">>, <<"t", "r", "u", "e">>, <<"y", "e", "s">>}

\* str(param).lower() in ("1", "true", "yes")
Flag(param) ==
    lower(ValueOf(param)) \in {<<"1">>, <<"t", "r", "u", "e">>, <<"y", "e", "s">>}

\* The query parameters of a request: each is None or a text.
Query(users, with_family, is_budget, accounts, time_from) ==
    [is_budget |-> is_budget, accounts |-> accounts, with_family |-> with_family,
     users |-> users, time_from |-> time_from]

NoQuery == Query(None, None, None, None, None)

MonoCardViewSet_get_queryset_with_inactive(user, action, query) ==
    FilterOwners([c \in cards |-> AccountOwner(c)],
                 get_accessible_user_tg_ids(user, action, query.users, FALSE))

\* MonoCardViewSet.get_queryset
MonoCardViewSet_get_queryset(user, action, query) ==
    FilterOwners([c \in {r \in cards : r.is_active} |-> AccountOwner(c)],
                 get_accessible_user_tg_ids(user, action, query.users, FALSE))

MonoJarViewSet_get_queryset_all(user, action, query) ==
    IF query.is_budget # None
    THEN {j \in jars : j.is_active /\ j.is_budget = Flag(query.is_budget)}
    ELSE {j \in jars : j.is_active}

\* MonoJarViewSet.get_queryset
MonoJarViewSet_get_queryset(user, action, query) ==
    LET with_family_bool ==
            IF query.with_family # None THEN Flag(query.with_family) ELSE FALSE
        queryset ==
            FilterOwners([j \in {r \in jars : r.is_active} |-> AccountOwner(j)],
                         get_accessible_user_tg_ids(user, action, query.users,
                                                    with_family_bool))
    IN  IF query.is_budget # None
        THEN {j \in queryset : j.is_budget = Flag(query.is_budget)}
        ELSE queryset

\* The filter by account id that both transaction lists start with.  An
\* account id is one symbol of the parameter's text.
FilterAccounts(txs, accounts) ==
    IF Truthy(accounts)
    THEN {t \in txs : <<t.account>> \in Range(split(ValueOf(accounts)))}
    ELSE txs

\* MonoTransactionViewSet.get_queryset
MonoTransactionViewSet_get_queryset(user, action, query) ==
    FilterOwners([t \in FilterAccounts(monoTxs, query.accounts) |-> MonoTxOwner(t)],
                 get_accessible_user_tg_ids(user, action, query.users, FALSE))

\* MonoJarTransactionViewSet.get_queryset: time_from that does not parse
\* leaves the queryset as it is.
MonoJarTransactionViewSet_get_queryset(user, action, query) ==
    LET by_jar == FilterAccounts(jarTxs, query.accounts)
        dt == strptime(ValueOf(query.time_from))
        by_time ==
            IF Truthy(query.time_from) /\ dt.exc = ""
            THEN {t \in by_jar : t.time >= timestamp(dt.date)}
            ELSE by_jar
    IN  FilterOwners([t \in by_time |-> JarTxOwner(t)],
                     get_accessible_user_tg_ids(user, action, query.users, FALSE))

\* hasattr(obj, name) of a row
hasattr(obj, name) == name \in DOMAIN obj

\* obj.account of a transaction: the card or the jar it is booked on
RelatedAccount(obj) ==
    IF Exists(cards, "id", obj.account)
    THEN Get(cards, "id", obj.account)
    ELSE Get(jars, "id", obj.account)

has_object_permission_recursive(user, obj) ==
    LET user_accessible_ids == get_related_tg_ids(user.tg_id, TRUE, TRUE)
    IN  IF user.is_superuser THEN TRUE
        ELSE IF hasattr(obj, "monoaccount")
        THEN TgText(obj.monoaccount) \in user_accessible_ids
        ELSE IF hasattr(obj, "account") /\ hasattr(RelatedAccount(obj), "monoaccount")
        THEN TgText(RelatedAccount(obj).monoaccount) \in user_accessible_ids
        ELSE FALSE

\* IsOwnerOrFamilyOrAdminPermission.has_object_permission
has_object_permission(user, obj) ==
    LET user_accessible_ids == get_related_tg_ids(user.tg_id, TRUE, FALSE)
    IN  IF user.is_superuser THEN TRUE
        ELSE IF hasattr(obj, "monoaccount")
        THEN TgText(obj.monoaccount) \in user_accessible_ids
        ELSE IF hasattr(obj, "account") /\ hasattr(RelatedAccount(obj), "monoaccount")
        THEN TgText(RelatedAccount(obj).monoaccount) \in user_accessible_ids
        ELSE FALSE

\* GenericAPIView.get_object of cards and jars: the row of the queryset with the primary
\* key, when the requester has the permission on it; none is 404, no
\* permission 403.
get_object(queryset, user, pk) ==
    LET found == RowsWhere(queryset, "id", pk)
    IN  IF found = {} THEN [status |-> 404, row |-> {}]
        ELSE IF ~has_object_permission(user, ValueOf(found))
        THEN [status |-> 403, row |-> {}]
        ELSE [status |-> 200, row |-> found]

-----------------------------------------------------------------------------
(* Jar months: the months a jar has transactions in, and a month's summary *)

DateBefore(d, e) ==
    \/ d.year < e.year
    \/ d.year = e.year /\ d.month < e.month
    \/ d.year = e.year /\ d.month = e.month /\ d.day < e.day

\* sorted(dates): the i-th is the one with i - 1 dates before it
sorted(dates) ==
    [i \in 1..Cardinality(dates) |->
        CHOOSE d \in dates : Cardinality({e \in dates : DateBefore(e, d)}) = i - 1]

TimeIdBefore(t, u) == t.time < u.time \/ (t.time = u.time /\ t.id < u.id)

\* order_by("time", "id"); the ids of the model are numbered in the order the
\* database sorts them in.
order_by_time_id(rows) ==
    [i \in 1..Cardinality(rows) |->
        CHOOSE r \in rows : Cardinality({q \in rows : TimeIdBefore(q, r)}) = i - 1]

AmountAfter(t, u) == t.amount > u.amount \/ (t.amount = u.amount /\ t.id < u.id)

\* order_by("-amount")
order_by_amount_desc(rows) ==
    [i \in 1..Cardinality(rows) |->
        CHOOSE r \in rows : Cardinality({q \in rows : AmountAfter(q, r)}) = i - 1]

OfJar_any(txs, jar_id) == txs

\* JarTransaction.objects.filter(account=self)
OfJar(txs, jar_id) == {t \in txs : t.account = jar_id}

\* The months of the transactions of every jar.
get_available_months_of_all(jar_id) ==
    sorted({Date(fromtimestamp(t.time).year, fromtimestamp(t.time).month, 1) :
               t \in jarTxs})

\* MonoJar.get_available_months
get_available_months(jar_id) ==
    LET timestamps == {t.time : t \in OfJar(jarTxs, jar_id)}
        unique_year_month ==
            {<<fromtimestamp(ts).year, fromtimestamp(ts).month>> : ts \in timestamps}
    IN  sorted({Date(ym[1], ym[2], 1) : ym \in unique_year_month})

InWindow_inclusive(t, start_ts, end_ts) == t.time >= start_ts /\ t.time <= end_ts

\* filter(time__gte=start_ts, time__lt=end_ts)
InWindow(t, start_ts, end_ts) == t.time >= start_ts /\ t.time < end_ts

positive_budget_first(qs) ==
    LET positive == {qs[i] : i \in {k \in 1..Len(qs) : qs[k].amount > 0}}
    IN  IF positive = {} THEN None
        ELSE Some(order_by_time_id(positive)[1].amount)

\* qs.filter(amount__gt=0).order_by("-amount").values_list("amount").first()
positive_budget(qs) ==
    LET positive == {qs[i] : i \in {k \in 1..Len(qs) : qs[k].amount > 0}}
    IN  IF positive = {} THEN None
        ELSE Some(order_by_amount_desc(positive)[1].amount)

Summary(start_balance, budget, end_balance, spent) ==
    [start_balance |-> start_balance, budget |-> budget,
     end_balance |-> end_balance, spent |-> spent]

\* The next month without the step into the next year after December.
next_month_start_same_year(month_start) ==
    Date(month_start.year, (month_start.month % 12) + 1, 1)

\* next_month_start of get_month_summary
next_month_start(month_start) ==
    IF month_start.month = 12
    THEN Date(month_start.year + 1, 1, 1)
    ELSE Date(month_start.year, month_start.month + 1, 1)

\* The queryset of get_month_summary: the jar's transactions from the
\* midnight that starts the month of month_date to the midnight that starts
\* the next month, by time and id.
month_qs(jar_id, month_date) ==
    LET month_start == Date(month_date.year, month_date.month, 1)
        start_ts == timestamp(month_start)
        end_ts == timestamp(next_month_start(month_start))
    IN  order_by_time_id({t \in OfJar(jarTxs, jar_id) : InWindow(t, start_ts, end_ts)})

\* MonoJar.get_month_summary, of a date
get_month_summary(jar_id, month_date) ==
    LET qs == month_qs(jar_id, month_date)
    IN  IF qs = <<>> THEN Summary(0, 0, 0, 0)
        ELSE LET first_tx == qs[1]
                 last_tx == qs[Len(qs)]
                 budget == IF positive_budget(qs) # None
                           THEN ValueOf(positive_budget(qs)) ELSE 0
                 start_balance == first_tx.balance
                 end_balance == last_tx.balance
             IN  Summary(start_balance, budget, end_balance,
                         start_balance - end_balance - budget)

\* What a request was answered: the status, the body, and the dates that
\* get_month_summary was called with on the way.
Response(op, user, pk, query, month, status, body, summarised) ==
    [op |-> op, user |-> user, pk |-> pk, query |-> query, month |-> month,
     status |-> status, body |-> body, summarised |-> summarised]

NotFound == [detail |-> "Not found."]

Forbidden == [detail |-> "You do not have permission to perform this action."]

\* MonoJarViewSet.get_object
MonoJarViewSet_get_object(user, action, query, pk) ==
    get_object(MonoJarViewSet_get_queryset(user, action, query), user, pk)

\* MonoJarViewSet.available_months
available_months(user, pk) ==
    LET jar == MonoJarViewSet_get_object(user, "available_months", NoQuery, pk)
        months == get_available_months(pk)
    IN  IF jar.status # 200
        THEN Response("available_months", user, pk, NoQuery, None, jar.status,
                      IF jar.status = 404 THEN NotFound ELSE Forbidden, {})
        ELSE Response("available_months", user, pk, NoQuery, None, 200,
                      [i \in 1..Len(months) |-> isoformat(months[i])], {})

IsFirstDay_any(parsed) == TRUE

\* parsed.day != 1 is refused
IsFirstDay(parsed) == parsed.day = 1

\* MonoJarViewSet.month_summary; `query` holds the parameters of the request
\* that get_queryset reads.
month_summary(user, pk, query, month_str) ==
    LET jar == MonoJarViewSet_get_object(user, "month_summary", query, pk)
        answer(status, body, summarised) ==
            Response("month_summary", user, pk, query, month_str, status, body,
                     summarised)
        parsed == strptime(ValueOf(month_str))
    IN  IF jar.status # 200
        THEN answer(jar.status, IF jar.status = 404 THEN NotFound ELSE Forbidden, {})
        ELSE IF ~Truthy(month_str)
        THEN answer(400, [error |-> "query param 'month' is required (e.g. 2025-07-01)"], {})
        ELSE IF parsed.exc # ""
        THEN answer(400, [error |-> "invalid 'month' format, expected YYYY-MM-01"], {})
        ELSE IF ~IsFirstDay(parsed.date)
        THEN answer(400, [error |-> "month must be the first day of month: YYYY-MM-01"], {})
        ELSE answer(200, get_month_summary(pk, parsed.date), {parsed.date})

AvailableMonths(user, pk) ==
    /\ last' = available_months(user, pk)
    /\ UNCHANGED <<tables, tasks, sync, family, beat, manager, requests, syncLog, chat>>

MonthSummary(user, pk, query, month_str) ==
    /\ last' = month_summary(user, pk, query, month_str)
    /\ UNCHANGED <<tables, tasks, sync, family, beat, manager, requests, syncLog, chat>>

-----------------------------------------------------------------------------
(* The month endpoints over the transaction histories of two jars *)

MaxJarTx == 2          \* transactions stored in the jars, ids 1..MaxJarTx

MonthJars == {"j1", "j2"}

\* Midnight of 1970-01-01, the last second of January, midnight of
\* 1970-02-01, the last second of 1970 and midnight of 1971-01-01.
SampleTimes == {0, 2678399, 2678400, 31535999, 31536000}

SampleAmounts == {-500, 300, 700}

SampleBalance(id) == 1000 * id

JarTxsOfId(id) ==
    {TxRow(j, 1, 1, [id |-> id, time |-> t, amount |-> a,
                     balance |-> SampleBalance(id), hold |-> FALSE]) :
        j \in MonthJars, t \in SampleTimes, a \in SampleAmounts}

\* The histories: any transactions with the ids 1..n, an id stored once.
RECURSIVE Histories(_)
Histories(n) ==
    IF n = 0 THEN {{}}
    ELSE LET shorter == Histories(n - 1)
         IN  shorter \cup {h \cup {t} : h \in shorter, t \in JarTxsOfId(n)}

FirstOfMonthTexts ==
    { isoformat(Date(1970, 1, 1)), isoformat(Date(1970, 2, 1)),
      isoformat(Date(1970, 3, 1)), isoformat(Date(1970, 12, 1)),
      isoformat(Date(1971, 1, 1)) }

MonthTexts ==
    FirstOfMonthTexts \cup
    { <<>>,
      isoformat(Date(1970, 1, 15)),
      <<"1", "9", "7", "0", "-", "0", "2", "-", "3", "0">>,
      <<"1", "9", "7", "0", "-", "1", "3", "-", "0", "1">>,
      <<"1", "9", "7", "0", "-", "2", "-", "1">>,
      <<"1", "9", "7", "0", "-", "0", "1", "-", "0", "1", "x">>,
      <<"0", "0", "0", "0", "-", "0", "1", "-", "0", "1">>,
      <<"i", "n", "v", "a", "l", "i", "d", "-", "d", "a", "t", "e">> }

MonthParams == {None} \cup {Some(text) : text \in MonthTexts}

\* The owner of jar j1, and an administrator.
MonthRequesters ==
    {[tg_id |-> 1, is_superuser |-> FALSE], [tg_id |-> NumUsers, is_superuser |-> TRUE]}

\* A request names no users, or the owner of jar j2.
MonthQueries ==
    {NoQuery, Query(Some(TgText(NumUsers)), None, None, None, None)}

InitMonths ==
    /\ InitCatalogue
    /\ cards = {}
    /\ jars = {JarRow("j1", 1, 1, 1000, TRUE), JarRow("j2", NumUsers, 1, 1000, TRUE)}
    /\ monoTxs = {}
    /\ jarTxs \in Histories(MaxJarTx)
    /\ tasks = EmptyBag
    /\ sync = Idle
    /\ NoBeat
    /\ manager = NewManager
    /\ requests = NoRequests
    /\ syncLog = NoSync
    /\ chat = NoChats
    /\ family = {}
    /\ last = Answer("init", 0, "")

\* The owners and administrators ask for the months of the jars and for the
\* summaries of first-of-month dates.
NextMonths ==
    \/ \E u \in MonthRequesters, j \in MonthJars : AvailableMonths(u, j)
    \/ \E u \in MonthRequesters, j \in MonthJars, m \in FirstOfMonthTexts :
          MonthSummary(u, j, NoQuery, Some(m))

SpecMonths == InitMonths /\ [][NextMonths]_vars

\* Requests for the month summary with any `month` and `users`, over the
\* histories of one transaction.
InitMonthRequests ==
    /\ InitCatalogue
    /\ cards = {}
    /\ jars = {JarRow("j1", 1, 1, 1000, TRUE), JarRow("j2", NumUsers, 1, 1000, TRUE)}
    /\ monoTxs = {}
    /\ jarTxs \in {{t} : t \in JarTxsOfId(1)}
    /\ tasks = EmptyBag
    /\ sync = Idle
    /\ NoBeat
    /\ manager = NewManager
    /\ requests = NoRequests
    /\ syncLog = NoSync
    /\ chat = NoChats
    /\ family = {}
    /\ last = Answer("init", 0, "")

NextMonthRequests ==
    \/ \E u \in MonthRequesters, j \in MonthJars : AvailableMonths(u, j)
    \/ \E u \in MonthRequesters, j \in MonthJars, q \in MonthQueries, m \in MonthParams :
          MonthSummary(u, j, q, m)

SpecMonthRequests == InitMonthRequests /\ [][NextMonthRequests]_vars

-----------------------------------------------------------------------------
(* Claims about the jar months *)

\* The transactions of jar_id whose time lies in the month of (year, month):
\* from the midnight that starts the month up to the midnight that ends it.
TxsOfMonth(jar_id, year, month) ==
    LET next == IF month = 12 THEN Date(year + 1, 1, 1) ELSE Date(year, month + 1, 1)
    IN  {t \in jarTxs : /\ t.account = jar_id
                        /\ timestamp(Date(year, month, 1)) <= t.time
                        /\ t.time < timestamp(next)}

C6_Months(jar_id) ==
    LET months == get_available_months(jar_id)
    IN  /\ \A i \in 1..Len(months) :
              /\ months[i].day = 1
              /\ months[i].month \in 1..12
              /\ TxsOfMonth(jar_id, months[i].year, months[i].month) # {}
              /\ i < Len(months) =>
                    \/ months[i].year < months[i + 1].year
                    \/ /\ months[i].year = months[i + 1].year
                       /\ months[i].month < months[i + 1].month
        /\ \A t \in jarTxs : t.account = jar_id =>
              \E i \in 1..Len(months) :
                  t \in TxsOfMonth(jar_id, months[i].year, months[i].month)

\* 'YYYY-MM-01' of a date
C6_IsoOf(text, d) ==
    /\ Len(text) = 10
    /\ AllDigits(SubSeq(text, 1, 4)) /\ ParseInt(SubSeq(text, 1, 4)) = d.year
    /\ text[5] = "-"
    /\ AllDigits(SubSeq(text, 6, 7)) /\ ParseInt(SubSeq(text, 6, 7)) = d.month
    /\ SubSeq(text, 8, 10) = <<"-", "0", "1">>

\* C6: get_available_months returns, strictly ascending and so without
\* duplicates, one first-of-month date for each month in which the jar has a
\* transaction and none for a month in which it has none, whatever other jars
\* hold; the available-months endpoint answers these dates as the texts
\* 'YYYY-MM-01'.
C6_AvailableMonths ==
    /\ \A j \in MonthJars : C6_Months(j)
    /\ (last.op = "available_months" /\ last.status = 200) =>
          /\ Len(last.body) = Len(get_available_months(last.pk))
          /\ \A i \in 1..Len(last.body) :
                C6_IsoOf(last.body[i], get_available_months(last.pk)[i])

\* The endpoint answered two months, the later one being the month of the
\* transaction with the smaller id.
C6_Witness ==
    /\ last.op = "available_months" /\ last.status = 200
    /\ Len(last.body) = 2
    /\ \E t, u \in jarTxs : t.id < u.id /\ t.time > u.time

\* The transactions that the summary last answered is about.
SummaryTxs ==
    LET d == ValueOf(last.summarised)
    IN  {t \in jarTxs : /\ t.account = last.pk
                        /\ fromtimestamp(t.time).year = d.year
                        /\ fromtimestamp(t.time).month = d.month}

Summarised == last.op = "month_summary" /\ last.status = 200

\* C7: for a month in which the jar has a transaction, start_balance is the
\* balance of the month's earliest transaction (the smallest id among equal
\* times), end_balance that of the latest (the largest id among equal times),
\* budget the largest positive amount of the month or 0 without one, and
\* spent = start_balance - end_balance - budget; other jars do not count.
C7_MonthSummary ==
    (Summarised /\ SummaryTxs # {}) =>
        LET txs == SummaryTxs
            earliest == CHOOSE t \in txs : \A u \in txs \ {t} :
                            t.time < u.time \/ (t.time = u.time /\ t.id < u.id)
            latest == CHOOSE t \in txs : \A u \in txs \ {t} :
                            t.time > u.time \/ (t.time = u.time /\ t.id > u.id)
            positive == {t.amount : t \in {u \in txs : u.amount > 0}}
            budget == IF positive = {} THEN 0
                      ELSE CHOOSE a \in positive : \A b \in positive : b <= a
        IN  /\ last.body.start_balance = earliest.balance
            /\ last.body.end_balance = latest.balance
            /\ last.body.budget = budget
            /\ last.body.spent = earliest.balance - latest.balance - budget

\* A summary of a month with two transactions of the jar at the same time,
\* both with a positive amount, the first one the smaller.
C7_Witness ==
    /\ Summarised
    /\ \E t, u \in SummaryTxs :
          t.id < u.id /\ t.time = u.time /\ 0 < t.amount /\ t.amount < u.amount
    /\ last.body.start_balance # last.body.end_balance
    /\ last.body.budget = 700

\* C8: for a month in which the jar has no transaction every field of the
\* summary is 0, whatever the jar holds in other months and other jars hold
\* in this one.
C8_EmptyMonth ==
    (Summarised /\ SummaryTxs = {}) => last.body = Summary(0, 0, 0, 0)

\* A summary of a month without a transaction of the jar, which has one at
\* the midnight that ends the month, while another jar has one in the month.
C8_Witness ==
    /\ Summarised
    /\ SummaryTxs = {}
    /\ last.body = Summary(0, 0, 0, 0)
    /\ LET d == ValueOf(last.summarised)
       IN  /\ d.month < 12
           /\ \E t \in jarTxs : /\ t.account = last.pk
                                /\ t.time = timestamp(Date(d.year, d.month + 1, 1))
           /\ \E t \in jarTxs : /\ t.account # last.pk
                                /\ fromtimestamp(t.time) = d

MonthRequired == [error |-> "query param 'month' is required (e.g. 2025-07-01)"]

MonthInvalid == [error |-> "invalid 'month' format, expected YYYY-MM-01"]

MonthNotFirst == [error |-> "month must be the first day of month: YYYY-MM-01"]

\* What the month-summary endpoint is to answer to the `month` of the request.
C9_Validated ==
    LET refused(body) == last.status = 400 /\ last.body = body /\ last.summarised = {}
        text == ValueOf(last.month)
    IN  /\ (last.month = None \/ text = <<>>) => refused(MonthRequired)
        /\ (last.month # None /\ text # <<>> /\ strptime(text).exc # "") =>
              refused(MonthInvalid)
        /\ (last.month # None /\ text # <<>> /\ strptime(text).exc = ""
                /\ strptime(text).date.day # 1) => refused(MonthNotFirst)
        /\ \A d \in last.summarised :
              /\ last.month # None
              /\ strptime(ValueOf(last.month)) = [exc |-> "", date |-> d]
              /\ d.day = 1 /\ d.month \in 1..12 /\ d.year >= 1

\* C9 as stated: the month-summary endpoint answers 400 with the error of
\* the case to a missing or empty `month`, to one that does not parse and to
\* a date that is not a first of month, computing no summary; only a valid
\* first-of-month date reaches get_month_summary.
C9_BadMonthRefused == last.op = "month_summary" => C9_Validated

\* The jar is in the queryset of the request: stored, active, and either the
\* requester is a superuser, or the owner is the requester or directly
\* related family and among the `users` of the request when it names any.
C9_Retrievable ==
    \E j \in jars :
        /\ j.id = last.pk
        /\ j.is_active
        /\ \/ last.user.is_superuser
           \/ /\ \/ last.user.tg_id = j.monoaccount
                 \/ {last.user.tg_id, j.monoaccount} \in family
              /\ \/ last.query.users = None
                 \/ \E i \in 1..Len(split(ValueOf(last.query.users))) :
                        split(ValueOf(last.query.users))[i] = TgText(j.monoaccount)

\* C9 as amended: the jar is looked up first, in the queryset of the request.
\* For a jar found there the endpoint validates `month` as stated; for any
\* other jar it answers 404 whatever `month` is, and computes no summary.
C9_BadMonthRefusedOfRetrievable ==
    last.op = "month_summary" =>
        IF C9_Retrievable THEN C9_Validated
        ELSE last.status = 404 /\ last.summarised = {}

\* A date that parses and is not a first of month was refused for a jar of
\* the requester, who named no users.
C9_Witness ==
    /\ last.op = "month_summary"
    /\ C9_Retrievable
    /\ ~last.user.is_superuser
    /\ last.query = NoQuery
    /\ last.month = Some(isoformat(Date(1970, 1, 15)))
    /\ last.status = 400 /\ last.body = MonthNotFirst

-----------------------------------------------------------------------------
(* The list endpoints over the cards, jars and transactions of a family *)

\* The ids of cards and jars are a letter and a digit here; the database
\* compares two of a table by the digit.
IdNumber(id) == CHOOSE k \in 0..9 : id \in {"c" \o ToString(k), "j" \o ToString(k)}

\* queryset.order_by("id") of cards or jars
order_by_id(rows) ==
    [i \in 1..Cardinality(rows) |->
        CHOOSE r \in rows :
            Cardinality({q \in rows : IdNumber(q.id) < IdNumber(r.id)}) = i - 1]

TimeDescIdBefore(t, u) == t.time > u.time \/ (t.time = u.time /\ t.id < u.id)

\* queryset.order_by("-time", "id") of transactions
order_by_time_desc_id(rows) ==
    [i \in 1..Cardinality(rows) |->
        CHOOSE r \in rows : Cardinality({q \in rows : TimeDescIdBefore(q, r)}) = i - 1]

\* What a list request was answered: the ids of the rows listed, as a set and
\* in the order of the list.
Listed(op, user, query, rows) ==
    [op |-> op, user |-> user, query |-> query, status |-> 200,
     ids |-> {rows[i].id : i \in 1..Len(rows)},
     ordered |-> [i \in 1..Len(rows) |-> rows[i].id]]

ListCards(user, query) ==
    /\ last' = Listed("list_cards", user, query,
                      order_by_id(MonoCardViewSet_get_queryset(user, "list", query)))
    /\ UNCHANGED <<tables, tasks, sync, family, beat, manager, requests, syncLog, chat>>

ListJars(user, query) ==
    /\ last' = Listed("list_jars", user, query,
                      order_by_id(MonoJarViewSet_get_queryset(user, "list", query)))
    /\ UNCHANGED <<tables, tasks, sync, family, beat, manager, requests, syncLog, chat>>

ListTransactions(user, query) ==
    /\ last' = Listed("list_transactions", user, query,
                      order_by_time_desc_id(
                          MonoTransactionViewSet_get_queryset(user, "list", query)))
    /\ UNCHANGED <<tables, tasks, sync, family, beat, manager, requests, syncLog, chat>>

ListJarTransactions(user, query) ==
    /\ last' = Listed("list_jar_transactions", user, query,
                      order_by_time_desc_id(
                          MonoJarTransactionViewSet_get_queryset(user, "list", query)))
    /\ UNCHANGED <<tables, tasks, sync, family, beat, manager, requests, syncLog, chat>>

\* The `users` of a request: missing, empty, one tg_id, two, and lists with
\* an empty piece, a blank and the tg_id of nobody.
UsersParams ==
    {None, Some(<<>>)}
        \cup {Some(TgText(u)) : u \in Members}
        \cup {Some(TgText(1) \o <<",">> \o TgText(NumMembers)),
              Some(TgText(2) \o <<",", ",", "9">>),
              Some(TgText(1) \o <<",", " ">> \o TgText(2))}

WithFamilyParams == {None, Some(<<"1">>), Some(<<"T", "r", "u", "e">>), Some(<<"0">>)}

IsBudgetParams == {None, Some(<<"1">>)}

TimeFromParams == {None, Some(isoformat(Date(1970, 1, 1)))}

CardIdOf(tg_id) == "c" \o ToString(tg_id)

JarIdOf(tg_id) == "j" \o ToString(tg_id)

CardsParams == {None, Some(<<CardIdOf(1), ",", CardIdOf(NumMembers)>>)}

JarsParams == {None, Some(<<JarIdOf(NumMembers)>>)}

\* A superuser, and every user as a requester without that flag.
ListRequesters ==
    {[tg_id |-> 1, is_superuser |-> TRUE]}
        \cup {[tg_id |-> u, is_superuser |-> FALSE] : u \in Members}

StatementItemOf(tg_id) ==
    [id |-> tg_id, time |-> 0, amount |-> -500, balance |-> 1000, hold |-> FALSE]

\* Every user has an active card and an active jar with a transaction each,
\* and user 1 a card and a jar that are no longer active; the family links
\* are any.
InitAccess ==
    /\ InitCatalogue
    /\ cards = {CardRow(CardIdOf(u), u, 1, 1000, TRUE) : u \in Members}
                   \cup {CardRow(CardIdOf(0), 1, 1, 1000, FALSE)}
    /\ jars = {JarRow(JarIdOf(u), u, 1, 1000, TRUE) : u \in Members}
                  \cup {JarRow(JarIdOf(0), 1, 1, 1000, FALSE)}
    /\ monoTxs = {TxRow(CardIdOf(u), 1, 1, StatementItemOf(u)) : u \in Members}
    /\ jarTxs = {TxRow(JarIdOf(u), 1, 1, StatementItemOf(u)) : u \in Members}
    /\ tasks = EmptyBag
    /\ sync = Idle
    /\ NoBeat
    /\ manager = NewManager
    /\ requests = NoRequests
    /\ syncLog = NoSync
    /\ chat = NoChats
    /\ family \in SUBSET {{u, v} : u, v \in Members}
    /\ \A link \in family : Cardinality(link) = 2
    /\ last = Answer("init", 0, "")

NextAccess ==
    \/ \E r \in ListRequesters, u \in UsersParams :
          ListCards(r, Query(u, None, None, None, None))
    \/ \E r \in ListRequesters, u \in UsersParams, f \in WithFamilyParams,
          b \in IsBudgetParams :
          ListJars(r, Query(u, f, b, None, None))
    \/ \E r \in ListRequesters, u \in UsersParams, c \in CardsParams :
          ListTransactions(r, Query(u, None, None, c, None))
    \/ \E r \in ListRequesters, u \in UsersParams, j \in JarsParams,
          t \in TimeFromParams :
          ListJarTransactions(r, Query(u, None, None, j, t))

SpecAccess == InitAccess /\ [][NextAccess]_vars

-----------------------------------------------------------------------------
(* Claim about the access control *)

\* The accessible set of a user: the user and the directly linked family.
C10_Accessible(tg_id) == {tg_id} \cup {v \in Members : {tg_id, v} \in family}

\* The tg_ids a request asks for, with the family of each when with_family.
C10_Asked(users_param, with_family) ==
    LET ids == Range(split(ValueOf(users_param)))
    IN  IF with_family
        THEN ids \cup {TgText(v) : v \in {w \in Members :
                          \E u \in C10_Accessible(w) : TgText(u) \in ids}}
        ELSE ids

C10_Returned(tg_id, users_param, with_family) ==
    LET r == get_accessible_user_tg_ids([tg_id |-> tg_id, is_superuser |-> FALSE],
                                        "list", users_param, with_family)
        accessible == {TgText(v) : v \in C10_Accessible(tg_id)}
    IN  /\ r.filtered
        /\ r.tg_ids \subseteq accessible
        /\ r.tg_ids = IF Truthy(users_param)
                      THEN C10_Asked(users_param, with_family) \cap accessible
                      ELSE accessible

C10_OwnerOf(op, id) ==
    LET account(table, acc_id) == (CHOOSE a \in table : a.id = acc_id).monoaccount
    IN  CASE op = "list_cards" -> account(cards, id)
          [] op = "list_jars" -> account(jars, id)
          [] op = "list_transactions" ->
                account(cards, (CHOOSE t \in monoTxs : t.id = id).account)
          [] op = "list_jar_transactions" ->
                account(jars, (CHOOSE t \in jarTxs : t.id = id).account)

ListOps == {"list_cards", "list_jars", "list_transactions", "list_jar_transactions"}

\* C10: to a requester who is not a superuser get_accessible_user_tg_ids
\* returns a subset of the requester's accessible set (own tg_id and direct
\* family), for every `users` and with_family: with users named, the named
\* tg_ids (with their family when with_family) that are accessible, and
\* without, the accessible set.  No list of cards, jars or transactions then
\* holds a row of an owner outside the accessible set.
C10_AccessibleOnly ==
    /\ \A u \in Members, p \in UsersParams, f \in BOOLEAN : C10_Returned(u, p, f)
    /\ (last.op \in ListOps /\ ~last.user.is_superuser) =>
          \A id \in last.ids : C10_OwnerOf(last.op, id) \in C10_Accessible(last.user.tg_id)

\* User 1 is linked to 2 and 2 to 3; user 1 asked for the jars of user 2 with
\* family and was listed the jars of 1 and 2, not that of 3.
C10_Witness ==
    /\ last.op = "list_jars"
    /\ last.user = [tg_id |-> 1, is_superuser |-> FALSE]
    /\ family = {{1, 2}, {2, 3}}
    /\ last.query.users = Some(TgText(2))
    /\ last.query.with_family = Some(<<"T", "r", "u", "e">>)
    /\ last.query.is_budget = None
    /\ last.ids = {JarIdOf(1), JarIdOf(2)}

-----------------------------------------------------------------------------
(* Claim about the jars a superuser is listed *)

\* A text is one of '1', 'true', 'yes' whatever the case of its letters.
C11_SaysYes(param) ==
    /\ param # None
    /\ \E word \in {<<"1">>, <<"t", "r", "u", "e">>, <<"y", "e", "s">>} :
          /\ Len(ValueOf(param)) = Len(word)
          /\ \A i \in 1..Len(word) :
                \/ ValueOf(param)[i] = word[i]
                \/ \E k \in 1..Len(LowerCase) :
                      ValueOf(param)[i] = UpperCase[k] /\ word[i] = LowerCase[k]

\* The active jars that the is_budget of the request lets through.
C11_ActiveJars(query) ==
    {j \in jars : /\ j.is_active
                  /\ query.is_budget # None => j.is_budget = C11_SaysYes(query.is_budget)}

\* C11: a superuser who lists jars without `users` is listed every active
\* jar, no owner left out; with `users`, exactly the active jars of the owners
\* whose tg_id is named (a name that is nobody's adds nothing), the named
\* tg_ids counted with the family of each when with_family says yes ('1',
\* 'true', 'yes' in any case).
C11_SuperuserJars ==
    (last.op = "list_jars" /\ last.user.is_superuser) =>
        LET users == last.query.users
            named == C10_Asked(users, C11_SaysYes(last.query.with_family))
        IN  last.ids =
                IF users \in {None, Some(<<>>)}
                THEN {j.id : j \in C11_ActiveJars(last.query)}
                ELSE {j.id : j \in {a \in C11_ActiveJars(last.query) :
                                        TgText(a.monoaccount) \in named}}

\* User 1 is linked to 2 only; the superuser asked for the jars of user 1
\* with family 'True' and was listed the active jars of 1 and 2, not the
\* inactive jar of user 1 and not the jar of user 3.
C11_Witness ==
    /\ last.op = "list_jars"
    /\ last.user.is_superuser
    /\ family = {{1, 2}}
    /\ last.query.users = Some(TgText(1))
    /\ last.query.with_family = Some(<<"T", "r", "u", "e">>)
    /\ last.query.is_budget = None
    /\ last.ids = {JarIdOf(1), JarIdOf(2)}

-----------------------------------------------------------------------------
(* The object permission, asked of every kind of object *)

\* check_object_permissions(request, obj) with IsOwnerOrFamilyOrAdminPermission
CheckObjectPermission(user, obj) ==
    /\ last' = [op |-> "has_object_permission", user |-> user, obj |-> obj,
                granted |-> has_object_permission(user, obj)]
    /\ UNCHANGED <<tables, tasks, sync, family, beat, manager, requests, syncLog, chat>>

NextPermission ==
    \/ \E user \in ListRequesters, obj \in cards \cup jars : CheckObjectPermission(user, obj)
    \/ \E user \in ListRequesters, obj \in monoTxs \cup jarTxs :
          CheckObjectPermission(user, obj)
    \/ \E user \in ListRequesters, obj \in categories \cup currencies :
          CheckObjectPermission(user, obj)

SpecPermission == InitAccess /\ [][NextPermission]_vars

\* The user an object belongs to: the owner of a card or jar, the owner of
\* the card or jar of a transaction, and nobody for anything else.
C15_OwnerOf(obj) ==
    IF obj \in cards \cup jars THEN {obj.monoaccount}
    ELSE IF obj \in monoTxs THEN {(CHOOSE c \in cards : c.id = obj.account).monoaccount}
    ELSE IF obj \in jarTxs THEN {(CHOOSE j \in jars : j.id = obj.account).monoaccount}
    ELSE {}

\* C15: has_object_permission grants exactly when the requester is a
\* superuser or the owner of the object (of the card or jar, or of the card or
\* jar of the transaction) is the requester or directly linked to the
\* requester; an object that is none of these is denied to everybody but
\* superusers.
C15_ObjectPermission ==
    last.op = "has_object_permission" =>
        (last.granted <=>
            \/ last.user.is_superuser
            \/ \E owner \in C15_OwnerOf(last.obj) :
                  owner \in C10_Accessible(last.user.tg_id))

\* User 2, linked to user 3, was granted the transaction on the jar of
\* user 3.
C15_Witness ==
    /\ last.op = "has_object_permission"
    /\ last.user = [tg_id |-> 2, is_superuser |-> FALSE]
    /\ last.obj \in jarTxs
    /\ last.obj.account = JarIdOf(3)
    /\ family = {{2, 3}}
    /\ last.granted

-----------------------------------------------------------------------------
(* The detail endpoints of jars and cards *)

\* A value of a JSON body: true or false, a number, a string.
JBool(b) == [type |-> "bool", bool |-> b, int |-> 0, chars |-> <<>>]

JInt(n) == [type |-> "int", bool |-> FALSE, int |-> n, chars |-> <<>>]

JText(t) == [type |-> "str", bool |-> FALSE, int |-> 0, chars |-> t]

\* str(value) of a value of a JSON body; the numbers are not negative
str(v) ==
    CASE v.type = "bool" ->
            IF v.bool THEN <<"T", "r", "u", "e">> ELSE <<"F", "a", "l", "s", "e">>
      [] v.type = "int" -> ZeroPad(v.int, 1)
      [] v.type = "str" -> v.chars

\* What IntegerField stores of a value assigned to it: a column that is not
\* null refuses None, and int(value) refuses a text that is no number.
IntegerField(value) ==
    IF value = None THEN [exc |-> "IntegrityError", int |-> 0]
    ELSE LET v == ValueOf(value)
         IN  CASE v.type = "bool" -> [exc |-> "", int |-> IF v.bool THEN 1 ELSE 0]
               [] v.type = "int" -> [exc |-> "", int |-> v.int]
               [] v.type = "str" ->
                     IF v.chars # <<>> /\ AllDigits(v.chars)
                     THEN [exc |-> "", int |-> ParseInt(v.chars)]
                     ELSE [exc |-> "ValueError", int |-> 0]

\* MonoJarSerializer(jar).data, the fields that the rows here have
MonoJarSerializer(jar) ==
    [id |-> jar.id, currency |-> jar.currency, balance |-> jar.balance,
     is_budget |-> jar.is_budget, invested |-> jar.invested]

\* MonoCardSerializer(card).data
MonoCardSerializer(card) ==
    [id |-> card.id, currency |-> card.currency, balance |-> card.balance]

\* What a detail request was answered; `data` is the value of the request
\* body that the action reads, and exc the exception that nothing handled.
Answered(op, user, pk, query, data, status, body, exc) ==
    [op |-> op, user |-> user, pk |-> pk, query |-> query, data |-> data,
     status |-> status, body |-> body, exc |-> exc]

\* The answer of a detail action when get_object raised.
Refused(op, user, pk, query, data, status) ==
    Answered(op, user, pk, query, data, status,
             IF status = 404 THEN NotFound ELSE Forbidden, "")

\* MonoCardViewSet.get_object
MonoCardViewSet_get_object(user, action, query, pk) ==
    get_object(MonoCardViewSet_get_queryset(user, action, query), user, pk)

\* ModelViewSet.retrieve of MonoJarViewSet
retrieve_jar(user, pk, query) ==
    LET jar == MonoJarViewSet_get_object(user, "retrieve", query, pk)
    IN  IF jar.status # 200
        THEN Refused("retrieve_jar", user, pk, query, None, jar.status)
        ELSE Answered("retrieve_jar", user, pk, query, None, 200,
                      MonoJarSerializer(ValueOf(jar.row)), "")

\* ModelViewSet.retrieve of MonoCardViewSet
retrieve_card(user, pk, query) ==
    LET card == MonoCardViewSet_get_object(user, "retrieve", query, pk)
    IN  IF card.status # 200
        THEN Refused("retrieve_card", user, pk, query, None, card.status)
        ELSE Answered("retrieve_card", user, pk, query, None, 200,
                      MonoCardSerializer(ValueOf(card.row)), "")

\* What a request that may write answers and leaves in the table of jars.
Written(answer, table) == [answer |-> answer, jars |-> table]

set_budget_status_unchecked(user, pk, query, is_budget) ==
    LET jar == MonoJarViewSet_get_object(user, "set_budget_status", query, pk)
        is_budget_bool ==
            IF is_budget = None THEN FALSE ELSE Flag(Some(str(ValueOf(is_budget))))
        saved == [ValueOf(jar.row) EXCEPT !.is_budget = is_budget_bool]
    IN  IF jar.status # 200
        THEN Written(Refused("set_budget_status", user, pk, query, is_budget,
                             jar.status), jars)
        ELSE Written(Answered("set_budget_status", user, pk, query, is_budget, 200,
                              MonoJarSerializer(saved), ""),
                     SaveRow(jars, saved))

\* MonoJarViewSet.set_budget_status; is_budget is request.data.get("is_budget")
set_budget_status(user, pk, query, is_budget) ==
    LET jar == MonoJarViewSet_get_object(user, "set_budget_status", query, pk)
        is_budget_bool == Flag(Some(str(ValueOf(is_budget))))
        saved == [ValueOf(jar.row) EXCEPT !.is_budget = is_budget_bool]
    IN  IF jar.status # 200
        THEN Written(Refused("set_budget_status", user, pk, query, is_budget,
                             jar.status), jars)
        ELSE IF is_budget = None
        THEN Written(Answered("set_budget_status", user, pk, query, is_budget, 400,
                              [error |-> "is_budget parameter is required"], ""),
                     jars)
        ELSE Written(Answered("set_budget_status", user, pk, query, is_budget, 200,
                              MonoJarSerializer(saved), ""),
                     SaveRow(jars, saved))

\* MonoJarViewSet.set_invested; invested is request.data.get("invested").  An
\* exception of save() is handled by nobody: the request is answered 500 and
\* nothing is stored.
set_invested(user, pk, query, invested) ==
    LET jar == MonoJarViewSet_get_object(user, "set_invested", query, pk)
        stored == IntegerField(invested)
        saved == [ValueOf(jar.row) EXCEPT !.invested = stored.int]
    IN  IF jar.status # 200
        THEN Written(Refused("set_invested", user, pk, query, invested, jar.status),
                     jars)
        ELSE IF stored.exc # ""
        THEN Written(Answered("set_invested", user, pk, query, invested, 500, None,
                              stored.exc), jars)
        ELSE Written(Answered("set_invested", user, pk, query, invested, 200, None, ""),
                     SaveRow(jars, saved))

RetrieveJar(user, pk, query) ==
    /\ last' = retrieve_jar(user, pk, query)
    /\ UNCHANGED <<tables, tasks, sync, family, beat, manager, requests, syncLog, chat>>

RetrieveCard(user, pk, query) ==
    /\ last' = retrieve_card(user, pk, query)
    /\ UNCHANGED <<tables, tasks, sync, family, beat, manager, requests, syncLog, chat>>

SetBudgetStatus(user, pk, query, is_budget) ==
    LET written == set_budget_status(user, pk, query, is_budget)
    IN  /\ last' = written.answer
        /\ jars' = written.jars
        /\ UNCHANGED <<currencies, categories, categoryMSOs, cards, monoTxs, jarTxs,
                       tasks, sync, family, beat, manager, requests, syncLog, chat>>

SetInvested(user, pk, query, invested) ==
    LET written == set_invested(user, pk, query, invested)
    IN  /\ last' = written.answer
        /\ jars' = written.jars
        /\ UNCHANGED <<currencies, categories, categoryMSOs, cards, monoTxs, jarTxs,
                       tasks, sync, family, beat, manager, requests, syncLog, chat>>

\* The family of the detail requests: user 1 linked to 2, and 2 to 3 or not.
DetailFamilies == {{{1, 2}}, {{1, 2}, {2, 3}}}

\* A superuser, and users 1 and 2 as requesters without that flag.
DetailRequesters ==
    {[tg_id |-> 1, is_superuser |-> TRUE], [tg_id |-> 1, is_superuser |-> FALSE],
     [tg_id |-> 2, is_superuser |-> FALSE]}

\* The jars and cards asked for: that of user 1, that of the last user, the
\* inactive one of user 1 and one that nobody has.
DetailJars == {JarIdOf(1), JarIdOf(NumMembers), JarIdOf(0), JarIdOf(9)}

DetailCards == {CardIdOf(1), CardIdOf(NumMembers), CardIdOf(0), CardIdOf(9)}

DetailQueries == {NoQuery, Query(Some(TgText(1)), None, None, None, None)}

\* request.data.get("is_budget"): nothing, true, false, a string
IsBudgetData == {None, Some(JBool(TRUE)), Some(JBool(FALSE)), Some(JText(<<"Y", "E", "S">>))}

\* request.data.get("invested"): nothing, a number
InvestedData == {None, Some(JInt(0)), Some(JInt(555))}

InitDetail ==
    /\ InitCatalogue
    /\ cards = {CardRow(CardIdOf(u), u, 1, 1000, TRUE) : u \in Members}
                   \cup {CardRow(CardIdOf(0), 1, 1, 1000, FALSE)}
    /\ jars = {JarRow(JarIdOf(u), u, 1, 1000, TRUE) : u \in Members}
                  \cup {JarRow(JarIdOf(0), 1, 1, 1000, FALSE)}
    /\ monoTxs = {TxRow(CardIdOf(u), 1, 1, StatementItemOf(u)) : u \in Members}
    /\ jarTxs = {TxRow(JarIdOf(u), 1, 1, StatementItemOf(u)) : u \in Members}
    /\ tasks = EmptyBag
    /\ sync = Idle
    /\ NoBeat
    /\ manager = NewManager
    /\ requests = NoRequests
    /\ syncLog = NoSync
    /\ chat = NoChats
    /\ family \in DetailFamilies
    /\ last = Answer("init", 0, "")

NextDetail ==
    \/ \E r \in DetailRequesters, q \in DetailQueries : ListCards(r, q)
    \/ \E r \in DetailRequesters, q \in DetailQueries : ListJars(r, q)
    \/ \E r \in DetailRequesters, pk \in DetailCards : RetrieveCard(r, pk, NoQuery)
    \/ \E r \in DetailRequesters, pk \in DetailJars, q \in DetailQueries :
          RetrieveJar(r, pk, q)
    \/ \E r \in DetailRequesters, pk \in DetailJars, v \in IsBudgetData :
          SetBudgetStatus(r, pk, NoQuery, v)
    \/ \E r \in DetailRequesters, pk \in DetailJars, v \in InvestedData :
          SetInvested(r, pk, NoQuery, v)
    \/ \E r \in DetailRequesters, pk \in DetailJars : AvailableMonths(r, pk)
    \/ \E r \in DetailRequesters, pk \in DetailJars :
          MonthSummary(r, pk, NoQuery, Some(isoformat(Date(1970, 1, 1))))

SpecDetail == InitDetail /\ [][NextDetail]_vars

-----------------------------------------------------------------------------
(* Claims about the detail endpoints of jars *)

JarDetailOps ==
    {"retrieve_jar", "set_budget_status", "set_invested", "available_months",
     "month_summary"}

\* The requester is no superuser, and the jar is that of somebody who is
\* neither the requester nor directly linked to the requester.
C12_Outsider(user, pk) ==
    /\ ~user.is_superuser
    /\ \E j \in jars : j.id = pk /\ j.monoaccount \notin C10_Accessible(user.tg_id)

\* C12: retrieve, set_budget_status, set_invested, available-months and
\* month-summary answer 404 'Not found.' to a requester who is no superuser
\* and neither the owner of the jar nor directly linked to the owner, and the
\* request leaves every jar as it was, is_budget and invested included.
C12_OutsiderRefused ==
    [][(last'.op \in JarDetailOps /\ C12_Outsider(last'.user, last'.pk)) =>
          /\ last'.status = 404
          /\ last'.body = NotFound
          /\ jars' = jars]_vars

\* User 1 is linked to 2 and 2 to 3: user 1 asked to set the invested
\* amount of the jar of user 3, was answered 404, and the amount is what it
\* was.
C12_Witness ==
    /\ last.op = "set_invested"
    /\ last.user = [tg_id |-> 1, is_superuser |-> FALSE]
    /\ last.pk = JarIdOf(NumMembers)
    /\ family = {{1, 2}, {2, 3}}
    /\ last.data = Some(JInt(555))
    /\ last.status = 404
    /\ \E j \in jars : j.id = last.pk /\ j.invested = 0 /\ ~j.is_budget

\* The jar is exposed (active) and the requester is a superuser, its owner
\* or directly linked to its owner.
C13_Authorised(user, pk) ==
    \E j \in jars :
        /\ j.id = pk
        /\ j.is_active
        /\ user.is_superuser \/ j.monoaccount \in C10_Accessible(user.tg_id)

\* C13: set_budget_status asked by an authorised requester (owner, direct
\* family, superuser) without an is_budget value answers 400 with the error
\* "is_budget parameter is required" and leaves the jar as it was; with a
\* value it makes is_budget of the jar true exactly when the string form of
\* the value, whatever its case, is '1', 'true' or 'yes', changes no other
\* field of the jar and no other jar, and answers the serialized jar with the
\* new is_budget.
C13_SetBudgetStatus ==
    [][(last'.op = "set_budget_status" /\ C13_Authorised(last'.user, last'.pk)) =>
          LET old == CHOOSE j \in jars : j.id = last'.pk
              new == [old EXCEPT
                         !.is_budget = C11_SaysYes(Some(str(ValueOf(last'.data))))]
          IN  /\ UNCHANGED <<currencies, categories, categoryMSOs, cards, monoTxs,
                             jarTxs>>
              /\ IF last'.data = None
                 THEN /\ last'.status = 400
                      /\ last'.body = [error |-> "is_budget parameter is required"]
                      /\ jars' = jars
                 ELSE /\ last'.status = 200
                      /\ jars' = (jars \ {old}) \cup {new}
                      /\ last'.body.id = last'.pk
                      /\ last'.body.is_budget = new.is_budget
                      /\ last'.body.invested = old.invested
                      /\ last'.body.balance = old.balance]_vars

\* User 2, linked to user 1, set is_budget of the jar of user 1 with 'YES':
\* the jar is a budget jar now and the answer says so.
C13_Witness ==
    /\ last.op = "set_budget_status"
    /\ last.user = [tg_id |-> 2, is_superuser |-> FALSE]
    /\ last.pk = JarIdOf(1)
    /\ last.data = Some(JText(<<"Y", "E", "S">>))
    /\ last.status = 200
    /\ last.body.is_budget
    /\ \E j \in jars : j.id = JarIdOf(1) /\ j.is_budget

\* C14: set_invested asked by an authorised requester (owner, direct family,
\* superuser) stores the 'invested' value of the request as the invested
\* amount of the jar, answers 200 with an empty body and changes no other
\* field of the jar and no other jar; a read of the jar after it returns that
\* amount.
C14_SetInvested ==
    [][/\ (last'.op = "set_invested" /\ C13_Authorised(last'.user, last'.pk)) =>
             LET old == CHOOSE j \in jars : j.id = last'.pk
             IN  /\ last'.status = 200
                 /\ last'.body = None
                 /\ last'.data # None
                 /\ jars' = (jars \ {old})
                               \cup {[old EXCEPT !.invested = ValueOf(last'.data).int]}
                 /\ UNCHANGED <<currencies, categories, categoryMSOs, cards, monoTxs,
                                jarTxs>>
       /\ (last'.op = "retrieve_jar" /\ last'.status = 200) =>
             \E j \in jars : j.id = last'.pk /\ last'.body.invested = j.invested]_vars

-----------------------------------------------------------------------------
(* Claim about inactive cards and jars *)

\* The table that a list or detail request is about.
C18_TableOf(op) == IF op \in {"list_cards", "retrieve_card"} THEN cards ELSE jars

\* C18: the lists of cards and jars hold active cards and jars only, in the
\* ascending order of their ids; a card or jar that is not active is in no
\* list, and retrieve and every detail action on it answer 404 to everybody,
\* its owner and superusers included, and change nothing.
C18_ActiveOnly ==
    [][/\ last'.op \in {"list_cards", "list_jars"} =>
             /\ \A id \in last'.ids :
                   \E r \in C18_TableOf(last'.op) : r.id = id /\ r.is_active
             /\ \A r \in C18_TableOf(last'.op) :
                   ~r.is_active => \A i \in 1..Len(last'.ordered) : last'.ordered[i] # r.id
             /\ \A i, j \in 1..Len(last'.ordered) :
                   i < j => IdNumber(last'.ordered[i]) < IdNumber(last'.ordered[j])
       /\ (/\ last'.op \in JarDetailOps \cup {"retrieve_card"}
           /\ \E r \in C18_TableOf(last'.op) : r.id = last'.pk /\ ~r.is_active) =>
             /\ last'.status = 404
             /\ last'.body = NotFound
             /\ UNCHANGED tables]_vars

\* The superuser asked for the inactive card of user 1 and was answered 404.
C18_Witness ==
    /\ last.op = "retrieve_card"
    /\ last.user.is_superuser
    /\ last.pk = CardIdOf(0)
    /\ \E c \in cards : c.id = last.pk /\ ~c.is_active
    /\ last.status = 404

-----------------------------------------------------------------------------
(* The daily report scheduler *)

\* bool(value) of request.data.get(...): None, false, 0 and "" are false
IsTrue(value) ==
    /\ value # None
    /\ LET v == ValueOf(value)
       IN  CASE v.type = "bool" -> v.bool
             [] v.type = "int" -> v.int # 0
             [] v.type = "str" -> v.chars # <<>>

\* CrontabSchedule(minute, hour, day_of_week, day_of_month, month_of_year)
Crontab(id, minute, hour) ==
    [id |-> id, minute |-> minute, hour |-> hour, day_of_week |-> "*",
     day_of_month |-> "*", month_of_year |-> "*"]

\* CrontabSchedule.objects.get_or_create(minute=0, hour=21, ...): the table
\* afterwards and the id of the schedule found or made.
DailySchedule ==
    LET found == {c \in crontabs : c = Crontab(c.id, 0, 21)}
        made == Crontab(NextPk(crontabs), 0, 21)
    IN  IF found # {}
        THEN [crontabs |-> crontabs, id |-> (CHOOSE c \in found : TRUE).id]
        ELSE [crontabs |-> crontabs \cup {made}, id |-> made.id]

\* f"Daily mono transactions report for TG {tg_id}"
task_name(tg_id) == <<"Daily mono transactions report for TG ", str(ValueOf(tg_id))>>

task_path == "monobank.tasks.send_daily_mono_transactions_report"

\* A PeriodicTask row; args is the list that json.dumps writes.
PeriodicTask(name, task, crontab, interval, args, enabled) ==
    [name |-> name, task |-> task, crontab |-> crontab, interval |-> interval,
     args |-> args, enabled |-> enabled]

\* What a request to the scheduler was answered, and the tables afterwards.
Scheduled(op, tg_id, delete, status, body, crontabs_after, tasks_after) ==
    [answer |-> [op |-> op, tg_id |-> tg_id, delete |-> delete, status |-> status,
                 body |-> body],
     crontabs |-> crontabs_after, periodicTasks |-> tasks_after]

DailyReportSchedulerApiView_post_as_found(tg_id) ==
    LET schedule == DailySchedule
        name == task_name(tg_id)
        found == {t \in periodicTasks : t.name = name}
        created == found = {}
        made == PeriodicTask(name, task_path, Some(schedule.id), None,
                             <<str(ValueOf(tg_id))>>, TRUE)
    IN  IF ~IsTrue(tg_id)
        THEN Scheduled("post", tg_id, None, 400, [error |-> "tg_id is required"],
                       crontabs, periodicTasks)
        ELSE Scheduled("post", tg_id, None, IF created THEN 201 ELSE 200,
                       [message |-> "registered", task |-> name,
                        schedule |-> "daily at 21:00", tg_id |-> str(ValueOf(tg_id))],
                       schedule.crontabs,
                       IF created THEN periodicTasks \cup {made} ELSE periodicTasks)

\* DailyReportSchedulerApiView.post; tg_id is request.data.get("tg_id")
DailyReportSchedulerApiView_post(tg_id) ==
    LET schedule == DailySchedule
        name == task_name(tg_id)
        found == {t \in periodicTasks : t.name = name}
        created == found = {}
        made == PeriodicTask(name, task_path, Some(schedule.id), None,
                             <<str(ValueOf(tg_id))>>, TRUE)
    IN  IF ~IsTrue(tg_id)
        THEN Scheduled("post", tg_id, None, 400, [error |-> "tg_id is required"],
                       crontabs, periodicTasks)
        ELSE Scheduled("post", tg_id, None, IF created THEN 201 ELSE 200,
                       [message |-> "registered", task |-> name,
                        schedule |-> "daily at 21:00", tg_id |-> str(ValueOf(tg_id))],
                       schedule.crontabs,
                       (periodicTasks \ found) \cup {made})

DailyReportSchedulerApiView_delete_always(tg_id, delete) ==
    LET name == task_name(tg_id)
        found == {t \in periodicTasks : t.name = name}
    IN  IF ~IsTrue(tg_id)
        THEN Scheduled("delete", tg_id, delete, 400, [error |-> "tg_id is required"],
                       crontabs, periodicTasks)
        ELSE IF found = {}
        THEN Scheduled("delete", tg_id, delete, 404, [error |-> "task not found"],
                       crontabs, periodicTasks)
        ELSE Scheduled("delete", tg_id, delete, 200,
                       [message |-> "deleted", task |-> name],
                       crontabs, periodicTasks \ found)

\* DailyReportSchedulerApiView.delete; delete is request.data.get("delete")
DailyReportSchedulerApiView_delete(tg_id, delete) ==
    LET name == task_name(tg_id)
        found == {t \in periodicTasks : t.name = name}
    IN  IF ~IsTrue(tg_id)
        THEN Scheduled("delete", tg_id, delete, 400, [error |-> "tg_id is required"],
                       crontabs, periodicTasks)
        ELSE IF found = {}
        THEN Scheduled("delete", tg_id, delete, 404, [error |-> "task not found"],
                       crontabs, periodicTasks)
        ELSE IF IsTrue(delete)
        THEN Scheduled("delete", tg_id, delete, 200,
                       [message |-> "deleted", task |-> name],
                       crontabs, periodicTasks \ found)
        ELSE Scheduled("delete", tg_id, delete, 200,
                       [message |-> "disabled", task |-> name],
                       crontabs,
                       (periodicTasks \ found)
                           \cup {[t EXCEPT !.enabled = FALSE] : t \in found})

SchedulerPost(tg_id) ==
    LET done == DailyReportSchedulerApiView_post(tg_id)
    IN  /\ last' = done.answer
        /\ crontabs' = done.crontabs
        /\ periodicTasks' = done.periodicTasks
        /\ UNCHANGED <<tables, tasks, sync, family, manager, requests, syncLog, chat>>

SchedulerDelete(tg_id, delete) ==
    LET done == DailyReportSchedulerApiView_delete(tg_id, delete)
    IN  /\ last' = done.answer
        /\ crontabs' = done.crontabs
        /\ periodicTasks' = done.periodicTasks
        /\ UNCHANGED <<tables, tasks, sync, family, manager, requests, syncLog, chat>>

\* request.data.get("tg_id"): nothing, an empty text, the tg_id of a user as
\* the bot sends it, and that of user 1 as a number
TgIdData ==
    {None, Some(JText(<<>>)), Some(JInt(1))} \cup {Some(JText(TgText(u))) : u \in 1..NumUsers}

\* request.data.get("delete"): nothing, true, false, a text
DeleteData == {None, Some(JBool(TRUE)), Some(JBool(FALSE)), Some(JText(<<"0">>))}

\* The periodic tasks that the admin may have set up by hand before: a task
\* under the name of user 1's report that is disabled and runs another task
\* on an interval, and a task of another kind on a morning schedule.
InitScheduler ==
    /\ InitCatalogue
    /\ cards = {} /\ jars = {} /\ monoTxs = {} /\ jarTxs = {}
    /\ tasks = EmptyBag
    /\ sync = Idle
    /\ family = {}
    /\ manager = NewManager
    /\ requests = NoRequests
    /\ syncLog = NoSync
    /\ chat = NoChats
    /\ crontabs \in {{}, {Crontab(1, 0, 9)}, {Crontab(1, 0, 21)}}
    /\ periodicTasks \in SUBSET
          {PeriodicTask(task_name(Some(JInt(1))), "monobank.tasks.other", None, Some(1),
                        <<>>, FALSE),
           PeriodicTask(<<"backup">>, "monobank.tasks.other", None, Some(1), <<>>, TRUE)}
    /\ last = Answer("init", 0, "")

NextScheduler ==
    \/ \E tg_id \in TgIdData : SchedulerPost(tg_id)
    \/ \E tg_id \in TgIdData, delete \in DeleteData : SchedulerDelete(tg_id, delete)

SpecScheduler == InitScheduler /\ [][NextScheduler]_vars

-----------------------------------------------------------------------------
(* Claims about the daily report scheduler *)

\* The request has no tg_id: none at all, or an empty one.
C16_NoTgId(tg_id) == tg_id \in {None, Some(JText(<<>>))}

\* The tg_id of a request as text.
C16_TextOf(tg_id) ==
    IF ValueOf(tg_id).type = "int" THEN TgText(ValueOf(tg_id).int)
    ELSE ValueOf(tg_id).chars

\* The periodic tasks of a table that are named for the tg_id.
C16_TasksFor(table, tg_id) ==
    {t \in table : t.name = <<"Daily mono transactions report for TG ", C16_TextOf(tg_id)>>}

\* The schedule of the row is: every day at 21:00.
C16_DailyAt21(c) ==
    /\ c.minute = 0 /\ c.hour = 21
    /\ c.day_of_week = "*" /\ c.day_of_month = "*" /\ c.month_of_year = "*"

\* C16: POST to the daily report scheduler without a tg_id answers 400 and
\* changes nothing; with one, there is afterwards exactly one periodic task
\* named for the tg_id, enabled, on the daily 21:00 crontab and with the args
\* [tg_id], and the answer is 201 when no task of the tg_id was there before
\* and 200 when one was, a disabled one too, which is enabled again.  No POST
\* makes a second task for a tg_id.
C16_Registered ==
    [][last'.op = "post" =>
          IF C16_NoTgId(last'.tg_id)
          THEN last'.status = 400 /\ UNCHANGED beat
          ELSE LET before == C16_TasksFor(periodicTasks, last'.tg_id)
                   after == C16_TasksFor(periodicTasks', last'.tg_id)
               IN  /\ Cardinality(after) = 1
                   /\ \A t \in after :
                         /\ t.enabled
                         /\ t.args = <<C16_TextOf(last'.tg_id)>>
                         /\ t.crontab # None
                         /\ \E c \in crontabs' :
                               c.id = ValueOf(t.crontab) /\ C16_DailyAt21(c)
                   /\ last'.status = IF before = {} THEN 201 ELSE 200
                   /\ Cardinality(periodicTasks') =
                         Cardinality(periodicTasks) + (IF before = {} THEN 1 ELSE 0)]_vars

\* The task of user 1 was there, disabled and on an interval; the POST for
\* tg_id '1' was answered 200 and the task is enabled and on the crontab now.
C16_Witness ==
    /\ last.op = "post"
    /\ last.tg_id = Some(JText(TgText(1)))
    /\ last.status = 200
    /\ \E t \in periodicTasks :
          /\ t.name = task_name(last.tg_id)
          /\ t.enabled /\ t.interval = None /\ t.crontab # None
    /\ \E t \in periodicTasks : t.name = <<"backup">>

\* C17: DELETE to the daily report scheduler without a tg_id answers 400;
\* with no task of the tg_id it answers 404 and changes nothing; with a task
\* and a true 'delete' the task is removed and the answer is 200 'deleted';
\* with a task and 'delete' absent or false the task stays, enabled=False,
\* and the answer is 200 'disabled'.  The tasks of other tg_ids stay as they
\* are.
C17_Removed ==
    [][last'.op = "delete" =>
          IF C16_NoTgId(last'.tg_id)
          THEN last'.status = 400 /\ UNCHANGED beat
          ELSE LET before == C16_TasksFor(periodicTasks, last'.tg_id)
                   after == C16_TasksFor(periodicTasks', last'.tg_id)
                   truthy == last'.delete \in {Some(JBool(TRUE)), Some(JText(<<"0">>))}
               IN  /\ periodicTasks' \ after = periodicTasks \ before
                   /\ crontabs' = crontabs
                   /\ IF before = {}
                      THEN last'.status = 404 /\ after = {}
                      ELSE IF truthy
                      THEN /\ last'.status = 200 /\ last'.body.message = "deleted"
                           /\ after = {}
                      ELSE /\ last'.status = 200 /\ last'.body.message = "disabled"
                           /\ after = {[t EXCEPT !.enabled = FALSE] : t \in before}]_vars

\* The task of user 2 was registered and then disabled by a DELETE without
\* 'delete': it is still there, not enabled, and the backup task is as it was.
C17_Witness ==
    /\ last.op = "delete"
    /\ last.tg_id = Some(JText(TgText(2)))
    /\ last.delete = None
    /\ last.status = 200 /\ last.body.message = "disabled"
    /\ \E t \in periodicTasks :
          t.name = task_name(last.tg_id) /\ ~t.enabled /\ t.task = task_path
    /\ \E t \in periodicTasks : t.name = <<"backup">> /\ t.enabled

-----------------------------------------------------------------------------
(* The RequestManager of the chat bot: the token behind every request *)

\* The answers of the API to the two token endpoints, as the tests mock them.
AuthResponse(status_code, access, refresh) ==
    [status_code |-> status_code, access |-> access, refresh |-> refresh]

AuthResponses ==
    {AuthResponse(200, a, r) : a \in {"access_token_123", "fallback_token"},
                               r \in {"refresh_token_456", "new_refresh"}}
        \cup {AuthResponse(401, "", ""), AuthResponse(500, "", "")}

\* A call of requests.post to a token endpoint.
AuthCall(url, json) == [url |-> url, json |-> json]

Credentials == [tg_id |-> "admin", password |-> "password123"]

\* What __get_auth_token and create_default_headers come to: the token or the
\* headers (none when an exception is raised), the exception, the calls made
\* to the API and the refresh token that the manager holds afterwards.
AuthResult(value, exc, calls, refresh_token) ==
    [value |-> value, exc |-> exc, calls |-> calls, refresh_token |-> refresh_token]

NoError == [type |-> "", text |-> "", status_code |-> 0]

PermissionError(status_code) ==
    [type |-> "PermissionError", text |-> "Failed to get initial auth tokens",
     status_code |-> status_code]

\* __get_auth_token(initial=True): the credentials are posted to
\* /account/token/; 200 gives the access token and stores the refresh token.
initial_auth(refresh_token, responses) ==
    LET response == Head(responses)
        call == AuthCall("/account/token/", Credentials)
    IN  IF response.status_code = 200
        THEN AuthResult(Some(response.access), NoError, <<call>>, Some(response.refresh))
        ELSE AuthResult(None, PermissionError(response.status_code), <<call>>,
                        refresh_token)

get_auth_token_no_fallback(refresh_token, initial, responses) ==
    LET response == Head(responses)
        call == AuthCall("/account/token-refresh/", [refresh |-> ValueOf(refresh_token)])
    IN  IF initial THEN initial_auth(refresh_token, responses)
        ELSE IF response.status_code = 200
        THEN AuthResult(Some(response.access), NoError, <<call>>, refresh_token)
        ELSE AuthResult(None, PermissionError(response.status_code), <<call>>,
                        refresh_token)

\* __get_auth_token(initial): with initial=False the refresh token is posted to
\* /account/token-refresh/; 200 gives the access token, anything else falls
\* back to the initial authentication.
get_auth_token(refresh_token, initial, responses) ==
    LET response == Head(responses)
        call == AuthCall("/account/token-refresh/", [refresh |-> ValueOf(refresh_token)])
        fallback == initial_auth(refresh_token, Tail(responses))
    IN  IF initial THEN initial_auth(refresh_token, responses)
        ELSE IF response.status_code = 200
        THEN AuthResult(Some(response.access), NoError, <<call>>, refresh_token)
        ELSE AuthResult(fallback.value, fallback.exc, <<call>> \o fallback.calls,
                        fallback.refresh_token)

\* The headers of a request with the token; content_type stands for the
\* header content-type.
Headers(token) ==
    [Authorization |-> "Bearer " \o token, content_type |-> "application/json"]

create_default_headers_always_initial(refresh_token, responses) ==
    LET auth == get_auth_token(refresh_token, TRUE, responses)
    IN  IF auth.value = None THEN auth
        ELSE AuthResult(Some(Headers(ValueOf(auth.value))), NoError, auth.calls,
                        auth.refresh_token)

\* RequestManager.create_default_headers: the initial authentication when no
\* refresh token is held, the refresh otherwise.
create_default_headers(refresh_token, responses) ==
    LET auth == get_auth_token(refresh_token, refresh_token = None, responses)
    IN  IF auth.value = None THEN auth
        ELSE AuthResult(Some(Headers(ValueOf(auth.value))), NoError, auth.calls,
                        auth.refresh_token)

\* A request of the bot to the API starts with create_default_headers;
\* `responses` are the answers of the API to the token calls, in their order.
CreateDefaultHeaders(responses) ==
    LET made == create_default_headers(manager.refresh_token, responses)
    IN  /\ manager' = [manager EXCEPT !.refresh_token = made.refresh_token]
        /\ last' = [op |-> "create_default_headers", value |-> made.value,
                    exc |-> made.exc, calls |-> made.calls, responses |-> responses]
        /\ UNCHANGED <<tables, tasks, sync, family, beat, requests, syncLog, chat>>

\* The bot starts again: rm = RequestManager(config)
NewRequestManager ==
    /\ manager' = NewManager
    /\ last' = [op |-> "RequestManager", value |-> None, exc |-> NoError,
                calls |-> <<>>, responses |-> <<>>]
    /\ UNCHANGED <<tables, tasks, sync, family, beat, requests, syncLog, chat>>

InitManager ==
    /\ InitCatalogue
    /\ cards = {} /\ jars = {} /\ monoTxs = {} /\ jarTxs = {}
    /\ tasks = EmptyBag
    /\ sync = Idle
    /\ family = {}
    /\ NoBeat
    /\ manager = NewManager
    /\ requests = NoRequests
    /\ syncLog = NoSync
    /\ chat = NoChats
    /\ last = Answer("init", 0, "")

NextManager ==
    \/ \E first, second \in AuthResponses : CreateDefaultHeaders(<<first, second>>)
    \/ NewRequestManager

SpecManager == InitManager /\ [][NextManager]_vars

-----------------------------------------------------------------------------
(* Claims about the RequestManager *)

\* C19: create_default_headers takes its token from the initial
\* authentication (the credentials) exactly when the manager holds no refresh
\* token, and from the refresh of the token it holds exactly when it holds
\* one; the headers it returns are Authorization 'Bearer <token>' and
\* content-type 'application/json'.  An initial authentication that succeeds
\* stores the refresh token it was given, so that the first request
\* authenticates and the requests after it refresh.
C19_Headers ==
    [][last'.op = "create_default_headers" =>
          LET first == last'.calls[1]
              answered == last'.responses[Len(last'.calls)]
          IN  /\ manager.refresh_token = None <=> first.url = "/account/token/"
              /\ manager.refresh_token # None <=>
                    /\ first.url = "/account/token-refresh/"
                    /\ first.json = [refresh |-> ValueOf(manager.refresh_token)]
              /\ first.url = "/account/token/" => first.json = Credentials
              /\ last'.value # None =>
                    /\ answered.status_code = 200
                    /\ ValueOf(last'.value) =
                          [Authorization |-> "Bearer " \o answered.access,
                           content_type |-> "application/json"]
              /\ (first.url = "/account/token/" /\ last'.responses[1].status_code = 200) =>
                    /\ manager'.refresh_token = Some(last'.responses[1].refresh)
                    /\ last'.value # None]_vars

\* The manager holds the refresh token of its first request, and this
\* request refreshed it: one call, to the refresh endpoint, and the headers
\* carry the token of the answer.
C19_Witness ==
    /\ last.op = "create_default_headers"
    /\ manager.refresh_token = Some("refresh_token_456")
    /\ Len(last.calls) = 1
    /\ last.calls[1] = AuthCall("/account/token-refresh/", [refresh |-> "refresh_token_456"])
    /\ last.value = Some(Headers("fallback_token"))

\* C20: a refresh that is answered with another status than 200 is followed
\* by one initial authentication, two calls in all, and the token is that of
\* the authentication; an initial authentication that is answered with
\* another status than 200 raises PermissionError, which names 'Failed to get
\* initial auth tokens' and the status, and gives no token.
C20_Fallback ==
    [][last'.op = "create_default_headers" =>
          LET calls == last'.calls
              initial == calls[Len(calls)]
              answered == last'.responses[Len(calls)]
          IN  /\ (calls[1].url = "/account/token-refresh/"
                  /\ last'.responses[1].status_code # 200) =>
                    /\ Len(calls) = 2
                    /\ calls[2] = [url |-> "/account/token/", json |-> Credentials]
              /\ (calls[1].url = "/account/token-refresh/"
                  /\ last'.responses[1].status_code = 200) => Len(calls) = 1
              /\ calls[1].url = "/account/token/" => Len(calls) = 1
              /\ (initial.url = "/account/token/" /\ answered.status_code = 200) =>
                    /\ last'.exc.type = ""
                    /\ last'.value # None
                    /\ ValueOf(last'.value).Authorization = "Bearer " \o answered.access
              /\ (initial.url = "/account/token/" /\ answered.status_code # 200) =>
                    /\ last'.exc.type = "PermissionError"
                    /\ last'.exc.text = "Failed to get initial auth tokens"
                    /\ last'.exc.status_code = answered.status_code
                    /\ last'.value = None]_vars

\* The refresh was answered 401 and the authentication after it 200: two
\* calls, and the headers carry the token of the authentication.
C20_Witness ==
    /\ last.op = "create_default_headers"
    /\ Len(last.calls) = 2
    /\ last.calls[1].url = "/account/token-refresh/"
    /\ last.responses[1].status_code = 401
    /\ last.responses[2] = AuthResponse(200, "fallback_token", "new_refresh")
    /\ last.value = Some(Headers("fallback_token"))
    /\ manager.refresh_token = Some("new_refresh")

-----------------------------------------------------------------------------
(* Claims about rejected webhook deliveries (Spec) *)

\* The mono_token of the account that owns the stored card or jar `account`.
C21_TokenOf(account) ==
    IF Exists(cards, "id", account)
    THEN AccountOfUser(Get(cards, "id", account).monoaccount).mono_token
    ELSE IF Exists(jars, "id", account)
    THEN AccountOfUser(Get(jars, "id", account).monoaccount).mono_token
    ELSE ""

\* The deliveries the view has to reject: no token, a body that fails
\* validation, a body that refers to data that is not stored, or a token that
\* is not the mono_token of the account the body names.
C21_Rejected(user_key, data) ==
    \/ user_key = ""
    \/ data.statement_item.mcc = {}
    \/ parse_obj(data).exc = "MonoDataNotFound"
    \/ C21_TokenOf(data.account) # user_key

\* What post does with the delivery (user_key, data) in this state: a delivery
\* it has to reject is answered 403, 404 or 422 and leaves both tables as they
\* are; a row it stores is on a card or jar of the account with this token.
C21_Delivery(user_key, data) ==
    LET r == post(user_key, data)
    IN /\ C21_Rejected(user_key, data) =>
             (r.status \in {403, 404, 422} /\ r.monoTxs = monoTxs /\ r.jarTxs = jarTxs)
       /\ \A t \in (r.monoTxs \ monoTxs) \cup (r.jarTxs \ jarTxs) :
             C21_TokenOf(t.account) = user_key

\* C21: a rejected webhook POST (token missing: 403, token of another account:
\* 403, invalid body: 422, referenced data not found: 404) creates and modifies
\* no MonoTransaction and no JarTransaction; a transaction a POST stores is on
\* a card or jar of the account whose mono_token the request carried.
C21_RejectedStoresNothing ==
    /\ [](\A k \in UserKeys, d \in WebhookBodies : C21_Delivery(k, d))
    /\ [][(last'.op = "webhook" /\ last'.status \in {403, 404, 422})
            => UNCHANGED <<monoTxs, jarTxs>>]_vars

\* A delivery that carried a token, but not the token of the account its body
\* names, was answered 403 after a transaction had been stored.
C21_Witness ==
    /\ last.op = "webhook" /\ last.status = 403
    /\ last.error = "invalid token or account missmatch"
    /\ monoTxs \cup jarTxs # {}

-----------------------------------------------------------------------------
(* Webhook POSTs served at the same time: the exists() query of post and the *)
(* UPDATE and the INSERT of Model.save() are separate statements             *)

\* The table the view stores a transaction of this kind of account in.
TxsOf(kind) == IF kind = "MonoCard" THEN monoTxs ELSE jarTxs

\* The worker's POST ended with this response.
Responded(w, answer) ==
    /\ requests' = [requests EXCEPT ![w] = [pc |-> "idle"]]
    /\ last' = answer

\* The worker's POST wrote `txs` to the table of its kind of account.
Stored(kind, txs) ==
    IF kind = "MonoCard" THEN monoTxs' = txs /\ jarTxs' = jarTxs
    ELSE jarTxs' = txs /\ monoTxs' = monoTxs

\* TransactionWebhookApiView.post up to its exists() query: a delivery that is
\* refused or found stored is answered at once; otherwise the worker goes on
\* to save() the row it built.
WebhookReceive(w, user_key, data) ==
    /\ requests[w].pc = "idle"
    /\ LET r == post(user_key, data)
           parsed == parse_obj(data)
       IN IF r.status # 201
          THEN Responded(w, WebhookAnswer(r.status, r.error))
          ELSE /\ requests' = [requests EXCEPT ![w] =
                                  [pc |-> "update", kind |-> parsed.kind, row |-> parsed.row]]
               /\ last' = last
    /\ UNCHANGED <<tables, tasks, sync, family, beat, manager, syncLog, chat>>

\* transaction.save(), first statement: UPDATE ... WHERE id = <id>.  When it
\* matches a row, the row takes the fields of the request and the view answers
\* 201; when it matches none, save() goes on to INSERT.
SaveUpdate(w) ==
    /\ requests[w].pc = "update"
    /\ LET kind == requests[w].kind
           row == requests[w].row
       IN IF Exists(TxsOf(kind), "id", row.id)
          THEN /\ Stored(kind, SaveRow(TxsOf(kind), row))
               /\ Responded(w, WebhookAnswer(201, ""))
          ELSE /\ requests' = [requests EXCEPT ![w].pc = "insert"]
               /\ UNCHANGED <<monoTxs, jarTxs, last>>
    /\ UNCHANGED <<currencies, categories, categoryMSOs, cards, jars, tasks, sync,
                   family, beat, manager, syncLog, chat>>

\* id is the primary key: the INSERT of a stored id raises IntegrityError.
InsertRaises(txs, row) == Exists(txs, "id", row.id)

\* transaction.save(), second statement: INSERT.  post catches ValidationError
\* and MonoDataNotFound only, so an IntegrityError leaves the view unhandled
\* and the request is answered 500.
SaveInsert(w) ==
    /\ requests[w].pc = "insert"
    /\ LET kind == requests[w].kind
           row == requests[w].row
       IN IF InsertRaises(TxsOf(kind), row)
          THEN /\ Responded(w, [WebhookAnswer(500, "") EXCEPT !.exc = "IntegrityError"])
               /\ UNCHANGED <<monoTxs, jarTxs>>
          ELSE /\ Stored(kind, TxsOf(kind) \cup {row})
               /\ Responded(w, WebhookAnswer(201, ""))
    /\ UNCHANGED <<currencies, categories, categoryMSOs, cards, jars, tasks, sync,
                   family, beat, manager, syncLog, chat>>

\* The deliveries of the concurrent specification: UAH statement items.
RaceBodies == {d \in WebhookBodies : d.statement_item.currency_code = 980}

InitRace == Init

NextRace ==
    \/ \E w \in Workers, k \in UserKeys, d \in RaceBodies : WebhookReceive(w, k, d)
    \/ \E w \in Workers : SaveUpdate(w)
    \/ \E w \in Workers : SaveInsert(w)

SpecRace == InitRace /\ [][NextRace]_vars

-----------------------------------------------------------------------------
(* Claims about concurrent webhook deliveries (SpecRace) *)

\* C22: of two webhook POSTs with one statement item id for one account that
\* are served at the same time (both may pass the exists() check before either
\* saves), both are answered 200 or 201, neither fails with an unhandled
\* error, and exactly one transaction with that id is stored.
C22_ConcurrentDeliveries ==
    /\ [](OneRowPerId(monoTxs) /\ OneRowPerId(jarTxs))
    /\ [][\A w \in Workers :
            (requests[w].pc # "idle" /\ requests'[w].pc = "idle")
               => /\ last'.status \in {200, 201} /\ last'.exc = ""
                  /\ Exists(IF requests[w].kind = "MonoCard" THEN monoTxs' ELSE jarTxs',
                            "id", requests[w].row.id)]_vars

\* One row per id is stored whatever the interleaving.
C22_OneRowStored ==
    [](OneRowPerId(monoTxs) /\ OneRowPerId(jarTxs))

-----------------------------------------------------------------------------
(* Claims about the window of the month summary (SpecMonths) *)

\* The first days of the months January 1970 .. January 1971.
C23_FirstDays == {Date(1970, m, 1) : m \in 1..12} \cup {Date(1971, 1, 1)}

\* The transactions of the jar that get_month_summary takes for the month.
C23_Taken(jar_id, d) == Range(month_qs(jar_id, d))

\* The calendar month of the transaction's time is the month of d.
C23_InMonth(t, d) ==
    fromtimestamp(t.time).year = d.year /\ fromtimestamp(t.time).month = d.month

\* C23: get_month_summary takes the half-open window [month start, next month
\* start): a transaction at the midnight that starts a month belongs to that
\* month and not to the one before, the window of December ends on 1 January
\* of the next year, and every transaction of a jar is taken for exactly one
\* month, the calendar month of its time.
C23_HalfOpenWindow ==
    /\ \A j \in MonthJars, d \in C23_FirstDays, t \in jarTxs :
          t \in C23_Taken(j, d) <=> (t.account = j /\ C23_InMonth(t, d))
    /\ \A t \in jarTxs :
          /\ Cardinality({d \in C23_FirstDays : t \in C23_Taken(t.account, d)}) = 1
          /\ t.time = timestamp(Date(1970, 2, 1)) =>
                /\ t \in C23_Taken(t.account, Date(1970, 2, 1))
                /\ t \notin C23_Taken(t.account, Date(1970, 1, 1))
          /\ t.time = timestamp(Date(1971, 1, 1)) =>
                /\ t \in C23_Taken(t.account, Date(1971, 1, 1))
                /\ t \notin C23_Taken(t.account, Date(1970, 12, 1))
          /\ t.time = timestamp(Date(1971, 1, 1)) - 1 =>
                t \in C23_Taken(t.account, Date(1970, 12, 1))
    /\ Summarised =>
          (last.body = Summary(0, 0, 0, 0)
              <=> C23_Taken(last.pk, ValueOf(last.summarised)) = {})

\* The summary of December 1970 of a jar with a transaction in the last second
\* of the year and one at the midnight of 1 January 1971: it starts and ends
\* with the balance of the former.
C23_Witness ==
    /\ Summarised
    /\ ValueOf(last.summarised) = Date(1970, 12, 1)
    /\ \E t, u \in jarTxs :
          /\ t.account = last.pk /\ u.account = last.pk
          /\ t.time = 31535999 /\ u.time = 31536000
          /\ last.body.start_balance = t.balance
          /\ last.body.end_balance = t.balance
          /\ t.balance # u.balance

-----------------------------------------------------------------------------
(* TestEndpoint: the months of every jar with their summaries *)

\* TestEndpoint.get: for every stored jar its available months and the summary
\* of each of them (the entry of a jar is named by the jar's id here).
TestEndpoint_get ==
    [op |-> "test", status |-> 200,
     body |-> {[jar |-> j.id,
                months |-> get_available_months(j.id),
                summaries |-> [i \in 1..Len(get_available_months(j.id)) |->
                                  get_month_summary(j.id, get_available_months(j.id)[i])]] :
                  j \in jars}]

TestEndpointGet ==
    /\ last' = TestEndpoint_get
    /\ UNCHANGED <<tables, tasks, sync, family, beat, manager, requests, syncLog, chat>>

InitMonthReport == InitMonths

\* The endpoint is open to everyone; an administrator asks for the summaries.
NextMonthReport ==
    \/ TestEndpointGet
    \/ \E j \in MonthJars, m \in FirstOfMonthTexts :
          MonthSummary([tg_id |-> NumUsers, is_superuser |-> TRUE], j, NoQuery, Some(m))

SpecMonthReport == InitMonthReport /\ [][NextMonthReport]_vars

\* C24: every date get_available_months returns for a jar has a summary that
\* is computed from at least one transaction of the jar, and the summary of
\* every first-of-month date it does not return is the all-zero summary.
C24_MonthsAgreeWithSummaries ==
    /\ last.op = "test" =>
          \A e \in last.body : \A i \in 1..Len(e.months) :
              /\ month_qs(e.jar, e.months[i]) # <<>>
              /\ e.summaries[i] # Summary(0, 0, 0, 0)
              /\ \E t \in jarTxs : t.account = e.jar /\ e.summaries[i].start_balance = t.balance
    /\ \A j \in MonthJars, d \in C23_FirstDays :
          IF d \in Range(get_available_months(j))
          THEN month_qs(j, d) # <<>>
          ELSE get_month_summary(j, d) = Summary(0, 0, 0, 0)
    /\ Summarised =>
          (ValueOf(last.summarised) \notin Range(get_available_months(last.pk))
              => last.body = Summary(0, 0, 0, 0))

\* TestEndpoint answered two months for one jar and none for the other.
C24_Witness ==
    /\ last.op = "test"
    /\ \E e, f \in last.body :
          /\ Len(e.months) = 2 /\ f.months = <<>>
          /\ e.summaries[1] # e.summaries[2]

\* The summary of a month that get_available_months does not return for the
\* jar, while the jar has a transaction in another month, was answered.
C24_WitnessNotReturned ==
    /\ Summarised
    /\ ValueOf(last.summarised) \notin Range(get_available_months(last.pk))
    /\ get_available_months(last.pk) # <<>>

-----------------------------------------------------------------------------
(* The account sync with the history of the call that started last *)

\* The bank's answers of this specification: at most one jar, of 1000 UAH.
LoggedInfos ==
    {d \in ClientInfos :
        \A j \in d.jars : j.currency_code = 980 /\ j.balance = 1000}

\* User 1 has the card c1, which an earlier sync marked inactive.
InitSyncLog ==
    /\ InitCatalogue
    /\ cards = {CardRow("c1", 1, 1, 1000, FALSE)}
    /\ jars = {}
    /\ monoTxs = {}
    /\ jarTxs = {}
    /\ tasks = EmptyBag
    /\ sync = Idle
    /\ NoBeat
    /\ manager = NewManager
    /\ requests = NoRequests
    /\ syncLog = StartSyncLog
    /\ chat = NoChats
    /\ family = {}
    /\ last = Answer("init", 0, "")

NextSyncLog ==
    \/ \E u \in TgIds, d \in LoggedInfos : CreateCardsJarsMark(u, d)
    \/ CreateCardsJarsDispatch
    \/ \E t \in BagToSet(tasks), b \in BankAnswers : RunCreateCard(t, b)
    \/ \E t \in BagToSet(tasks), b \in BankAnswers : RunCreateJar(t, b)

SpecSyncLog == InitSyncLog /\ [][NextSyncLog]_vars

-----------------------------------------------------------------------------
(* Claims about a completed sync (SpecSyncLog) *)

\* The create_cards_jars call that started last.
LastSync == syncLog.started[1]

\* Every upsert task that was sent has run and no call is between its halves.
SyncsCompleted == syncLog.started # <<>> /\ sync = Idle /\ tasks = EmptyBag

\* The bank lists an id for one client only: no listed id of the last call is
\* stored for another account.
C25_OwnIds ==
    /\ \A p \in LastSync.data.accounts, r \in cards :
          r.id = p.id => r.monoaccount = LastSync.account
    /\ \A p \in LastSync.data.jars, r \in jars :
          r.id = p.id => r.monoaccount = LastSync.account

\* The last call ran alone and is completed.
C25_SingleSyncDone ==
    SyncsCompleted /\ LastSync.earlier = {} /\ C25_OwnIds

\* The account's active rows of `table` are the listed ones, and every listed
\* one is stored for the account, active, with the payload's balance.
C25_ActiveAsListed(table, payloads, account) ==
    /\ {r.id : r \in {q \in table : q.monoaccount = account /\ q.is_active}}
          = ActiveIds(payloads)
    /\ \A p \in payloads : \E r \in table :
          /\ r.id = p.id /\ r.monoaccount = account
          /\ r.is_active /\ r.balance = p.balance

\* Every listed row is linked to the Currency of the payload's currency code.
C25_CurrencyAsListed(table, payloads) ==
    \A p \in payloads : \A r \in table :
        r.id = p.id =>
            /\ Exists(currencies, "code", p.currency_code)
            /\ r.currency = Get(currencies, "code", p.currency_code).pk

\* C25: after a single create_cards_jars(data) of an account and the completion
\* of the upsert tasks it sent, with no other sync interleaved, the active
\* cards of the account are exactly the cards of data and its active jars
\* exactly the jars of data; every listed one is stored with the payload's
\* field values and is_active = True, one that was inactive included, and
\* every unlisted one is inactive.
C25_SingleSync ==
    C25_SingleSyncDone =>
        /\ C25_ActiveAsListed(cards, LastSync.data.accounts, LastSync.account)
        /\ C25_ActiveAsListed(jars, LastSync.data.jars, LastSync.account)
        /\ C25_CurrencyAsListed(cards, LastSync.data.accounts)
        /\ C25_CurrencyAsListed(jars, LastSync.data.jars)

\* The same without the currency: the active sets, the balances and the
\* owners are as C25 says.
C25_SingleSyncExceptCurrency ==
    C25_SingleSyncDone =>
        /\ C25_ActiveAsListed(cards, LastSync.data.accounts, LastSync.account)
        /\ C25_ActiveAsListed(jars, LastSync.data.jars, LastSync.account)

\* A single sync of user 1 that listed the inactive card c1 and a new card is
\* completed: both are active.
C25_Reactivated ==
    /\ C25_SingleSyncDone
    /\ LastSync.account = 1
    /\ ActiveIds(LastSync.data.accounts) = {"c1", "c2"}
    /\ \A r \in cards : r.is_active

\* The last call started while upsert tasks of an earlier call of the same
\* account, and of no other, were waiting; every task has run since.
C26_OverlappedDone ==
    SyncsCompleted /\ LastSync.earlier = {LastSync.account}

\* C26: when two syncs of one account overlap, so that upsert tasks of the
\* earlier one may run after the later one has marked, then once every task
\* has run a card or jar of the account is active if and only if the payload
\* of the sync that started last lists it.
C26_LastSyncWins ==
    C26_OverlappedDone =>
        /\ \A r \in cards : r.monoaccount = LastSync.account =>
              (r.is_active <=> r.id \in ActiveIds(LastSync.data.accounts))
        /\ \A r \in jars : r.monoaccount = LastSync.account =>
              (r.is_active <=> r.id \in ActiveIds(LastSync.data.jars))

\* The rows of `table` that accounts other than tg_id own.
C27_OfOthers(table, tg_id) == {r \in table : r.monoaccount # tg_id}

\* The upsert of the id took `table` to `table2` as the claim says: a stored
\* row is replaced by one row with its id and its owner, and no row is added.
C27_InPlace(table, table2, id) ==
    Exists(table, "id", id) =>
        /\ Cardinality(table2) = Cardinality(table)
        /\ Cardinality(RowsWhere(table2, "id", id)) = 1
        /\ Get(table2, "id", id).monoaccount = Get(table, "id", id).monoaccount
        /\ \A r \in table : r.id # id => r \in table2

\* C27: create_cards_jars on an account changes no card and no jar that
\* another account owns, their is_active included; the upsert of a card or jar
\* whose id is stored updates the stored row in place, its owner unchanged, and
\* creates no second row with the id.
C27_OtherAccountsUntouched ==
    /\ [][(sync' # sync) =>
            LET tg_id == IF sync = Idle THEN sync'.account ELSE sync.account
            IN  /\ C27_OfOthers(cards', tg_id) = C27_OfOthers(cards, tg_id)
                /\ C27_OfOthers(jars', tg_id) = C27_OfOthers(jars, tg_id)]_vars
    /\ [][\A t \in BagToSet(tasks), b \in BankAnswers :
            RunCreateCard(t, b) => C27_InPlace(cards, cards', t.data.id)]_vars
    /\ [][\A t \in BagToSet(tasks), b \in BankAnswers :
            RunCreateJar(t, b) => C27_InPlace(jars, jars', t.data.id)]_vars
    /\ [](OneRowPerId(cards) /\ OneRowPerId(jars))

\* A sync of user 2 that listed the card c1 of user 1 is completed: c1 is
\* stored once, active, and user 1 owns it.
C27_Witness ==
    /\ SyncsCompleted
    /\ LastSync.account = 2 /\ LastSync.earlier = {}
    /\ "c1" \in ActiveIds(LastSync.data.accounts)
    /\ \E r \in cards : r.id = "c1" /\ r.monoaccount = 1 /\ r.is_active
    /\ Cardinality(RowsWhere(cards, "id", "c1")) = 1

-----------------------------------------------------------------------------
(* The six Celery tasks under autoretry: executions, retries and giving up *)

\* A worker runs a waiting create_transaction_from_webhook task.
RunWaitingTransaction(t) ==
    /\ t \in Waiting("create_transaction_from_webhook")
    /\ LET r == create_transaction_from_webhook(t.target, t.data)
       IN /\ Cardinality(r.categoryMSOs) <= MaxMSO
          /\ currencies' = r.currencies
          /\ categories' = r.categories
          /\ categoryMSOs' = r.categoryMSOs
          /\ monoTxs' = r.txs
          /\ tasks' = TasksAfterRun(t, r.exc)
          /\ last' = Answer("create_transaction_from_webhook", 0, r.exc)
    /\ UNCHANGED <<cards, jars, jarTxs, sync, family, beat, manager, requests, syncLog, chat>>

\* A worker runs a waiting create_jar_transaction_from_webhook task.
RunWaitingJarTransaction(t) ==
    /\ t \in Waiting("create_jar_transaction_from_webhook")
    /\ LET r == create_jar_transaction_from_webhook(t.target, t.data)
       IN /\ Cardinality(r.categoryMSOs) <= MaxMSO
          /\ currencies' = r.currencies
          /\ categories' = r.categories
          /\ categoryMSOs' = r.categoryMSOs
          /\ jarTxs' = r.txs
          /\ tasks' = TasksAfterRun(t, r.exc)
          /\ last' = Answer("create_jar_transaction_from_webhook", 0, r.exc)
    /\ UNCHANGED <<cards, jars, monoTxs, sync, family, beat, manager, requests, syncLog, chat>>

\* A worker runs a waiting set_account_webhook_by_token task: one POST to the
\* bank, whose answer is logged and not looked at; `raised` when the POST
\* itself raises (no connection).
RunSetAccountWebhook(t, raised) ==
    /\ t \in Waiting("set_account_webhook_by_token")
    /\ LET exc == IF raised THEN "ConnectionError" ELSE ""
       IN /\ tasks' = TasksAfterRun(t, exc)
          /\ last' = Answer("set_account_webhook_by_token", 0, exc)
    /\ UNCHANGED <<tables, sync, family, beat, manager, requests, syncLog, chat>>

\* MonoAccount.objects.all(): Meta.ordering = ["-id"]
RECURSIVE AllAccounts(_)
AllAccounts(n) == IF n = 0 THEN <<>> ELSE <<n>> \o AllAccounts(n - 1)

\* The loop of update_users from the i-th account on: create_cards_jars() asks
\* the bank (get_cards_jars raises MonoBankError for the account `failing`),
\* marks the unlisted cards and jars inactive and sends the upsert tasks.
RECURSIVE update_users(_, _, _, _, _, _)
update_users(i, cs, js, ts, answers, failing) ==
    IF i > NumUsers THEN [cards |-> cs, jars |-> js, tasks |-> ts, exc |-> ""]
    ELSE LET user == AllAccounts(NumUsers)[i]
             data == answers[user]
         IN  IF user = failing
             THEN [cards |-> cs, jars |-> js, tasks |-> ts, exc |-> "MonoBankError"]
             ELSE update_users(i + 1,
                               MarkInactive(cs, user, ActiveIds(data.accounts)),
                               MarkInactive(js, user, ActiveIds(data.jars)),
                               ts (+) UpsertTasks(user, data), answers, failing)

\* A worker runs a waiting update_users task.
RunUpdateUsers(t, answers, failing) ==
    /\ t \in Waiting("update_users")
    /\ LET r == update_users(1, cards, jars, EmptyBag, answers, failing)
       IN /\ BagCardinality(TasksAfterRun(t, r.exc) (+) r.tasks) <= MaxTasks
          /\ cards' = r.cards
          /\ jars' = r.jars
          /\ tasks' = TasksAfterRun(t, r.exc) (+) r.tasks
          /\ last' = Answer("update_users", 0, r.exc)
    /\ UNCHANGED <<currencies, categories, categoryMSOs, monoTxs, jarTxs, sync,
                   family, beat, manager, requests, syncLog, chat>>

\* The statement item of the task specifications: the stored jar transaction
\* with another `hold`, or a new one.
RetryItems ==
    {[id |-> 1, time |-> 0, amount |-> -500, balance |-> 1000, hold |-> h,
      mcc |-> {2}, currency_code |-> 980] : h \in BOOLEAN}

\* The bank's client-info answers of the task specifications.
RetryInfos ==
    {[accounts |-> {}, jars |-> {}],
     [accounts |-> {[id |-> "c1", currency_code |-> 980, balance |-> 1000]}, jars |-> {}]}

\* The messages that create_cards_jars, get_transactions, set_monobank_webhook
\* and the periodic schedule send.
DispatchedTasks ==
    {Task("create_card_from_webhook", 1, [id |-> "c1", currency_code |-> 980, balance |-> 1000]),
     Task("create_jar_from_webhook", NumUsers, [id |-> "j1", currency_code |-> 980, balance |-> 1000]),
     Task("update_users", "", [token |-> ""]),
     Task("set_account_webhook_by_token", "token1", [token |-> "token1"])}
    \cup {Task("create_transaction_from_webhook", "c1", d) : d \in RetryItems}
    \cup {Task("create_jar_transaction_from_webhook", "j1", d) : d \in RetryItems}

\* The answers of the bank to a card's or jar's statement request.
RetryBankAnswers == {"ok", "error"}

\* Card c1, jar j1 with the transaction 1, and one or two messages waiting.
InitTasks ==
    /\ InitCatalogue
    /\ cards = {CardRow("c1", 1, 1, 1000, TRUE)}
    /\ jars = {JarRow("j1", NumUsers, 1, 1000, TRUE)}
    /\ monoTxs = {}
    /\ jarTxs = {TxRow("j1", 1, 1, [id |-> 1, time |-> 0, amount |-> -500,
                                     balance |-> 1000, hold |-> FALSE])}
    /\ \E t, u \in DispatchedTasks : tasks = SetToBag({t, u})
    /\ sync = Idle
    /\ NoBeat
    /\ manager = NewManager
    /\ requests = NoRequests
    /\ syncLog = NoSync
    /\ chat = NoChats
    /\ family = {}
    /\ last = Answer("init", 0, "")

NextTasks ==
    \/ \E t \in BagToSet(tasks), b \in RetryBankAnswers : RunCreateCard(t, b)
    \/ \E t \in BagToSet(tasks), b \in RetryBankAnswers : RunCreateJar(t, b)
    \/ \E t \in BagToSet(tasks) : RunWaitingTransaction(t)
    \/ \E t \in BagToSet(tasks) : RunWaitingJarTransaction(t)
    \/ \E t \in BagToSet(tasks), raised \in BOOLEAN : RunSetAccountWebhook(t, raised)
    \/ \E t \in BagToSet(tasks), answers \in [TgIds -> RetryInfos],
          failing \in {0} \cup TgIds : RunUpdateUsers(t, answers, failing)

\* The workers keep taking messages from the queue: a waiting task is run.
SpecTasks == InitTasks /\ [][NextTasks]_vars /\ WF_vars(NextTasks)

-----------------------------------------------------------------------------
(* Claims about the retries of the tasks (SpecTasks) *)

\* The message t as it is sent again after an execution that raised.
C28_SentAgain(t) == [t EXCEPT !.retries = @ + 1]

\* This step is a worker's execution of the waiting message t.
C28_Runs(t) ==
    \/ \E b \in RetryBankAnswers : RunCreateCard(t, b) \/ RunCreateJar(t, b)
    \/ RunWaitingTransaction(t)
    \/ RunWaitingJarTransaction(t)
    \/ \E raised \in BOOLEAN : RunSetAccountWebhook(t, raised)
    \/ \E answers \in [TgIds -> RetryInfos], failing \in {0} \cup TgIds :
          RunUpdateUsers(t, answers, failing)

\* The execution took the message t from the queue; it was sent again, once,
\* when the execution raised and t had been retried less than 5 times, and not
\* at all when the execution returned or t was the fifth retry.
C28_Handled(t) ==
    LET again == CopiesIn(C28_SentAgain(t), tasks') - CopiesIn(C28_SentAgain(t), tasks)
    IN  /\ CopiesIn(t, tasks') = CopiesIn(t, tasks) - 1
        /\ IF last'.exc # "" /\ t.retries < 5 THEN again = 1 ELSE again = 0

\* C28: each of the six background tasks is retried when it raises and is
\* executed at most 6 times, once and then up to 5 retries, before it is given
\* up; an execution that succeeded is not followed by another; every task that
\* was sent eventually ends, succeeded or given up.
C28_RetriedAtMostFiveTimes ==
    /\ [](\A t \in BagToSet(tasks) : t.retries \in 0..5)
    /\ [][\A t \in BagToSet(tasks) : C28_Runs(t) => C28_Handled(t)]_vars
    /\ <>[](tasks = EmptyBag)

\* The jar transaction task raised in its sixth execution and was given up:
\* nothing waits any more.
C28_Witness ==
    /\ tasks = EmptyBag
    /\ last.op = "create_jar_transaction_from_webhook"
    /\ last.exc = "IntegrityError"

-----------------------------------------------------------------------------
(* Claims about statement items without "mcc" (Spec) *)

\* The rows the step added to a transaction table are linked to the
\* CategoryMSO whose mso is the number of CategoryMSO rows before the step,
\* which the step created under the default Category when none was stored.
C29_LinkedByCount(txs, txs2) ==
    \A row \in txs2 \ txs :
        \E m \in categoryMSOs' :
            /\ m.pk = row.mcc
            /\ m.mso = Cardinality(categoryMSOs)
            /\ IF Exists(categoryMSOs, "mso", m.mso)
               THEN categoryMSOs' = categoryMSOs
               ELSE /\ categoryMSOs' = categoryMSOs \cup {m}
                    /\ \E c \in categories' :
                          c.pk = m.category /\ c.name = DefaultCategoryName

\* The rows the step added are categorised under the default Category.
C29_UnderDefault(txs, txs2) ==
    \A row \in txs2 \ txs :
        \E m \in categoryMSOs', c \in categories' :
            /\ m.pk = row.mcc /\ c.pk = m.category
            /\ c.name = DefaultCategoryName

\* C29: the polling ingestion of a payload without "mcc" links the
\* transaction to the CategoryMSO whose mso is the number of CategoryMSO rows
\* at that time, creating it under the default Category when none is stored;
\* the transaction is thereby always categorised under the default Category
\* and never under a category of a stored real mcc code.
C29_NoMccUnderDefault ==
    /\ [][\A c \in CardIds, d \in StatementItems :
            (d.mcc = {} /\ RunCreateTransaction(c, d)) =>
                /\ C29_LinkedByCount(monoTxs, monoTxs')
                /\ C29_UnderDefault(monoTxs, monoTxs')]_vars
    /\ [][\A j \in JarIds, d \in StatementItems :
            (d.mcc = {} /\ RunCreateJarTransaction(j, d)) =>
                /\ C29_LinkedByCount(jarTxs, jarTxs')
                /\ C29_UnderDefault(jarTxs, jarTxs')]_vars

\* The first half on its own: the link by the number of CategoryMSO rows.
C29_NoMccLinkedByCount ==
    /\ [][\A c \in CardIds, d \in StatementItems :
            (d.mcc = {} /\ RunCreateTransaction(c, d)) =>
                C29_LinkedByCount(monoTxs, monoTxs')]_vars
    /\ [][\A j \in JarIds, d \in StatementItems :
            (d.mcc = {} /\ RunCreateJarTransaction(j, d)) =>
                C29_LinkedByCount(jarTxs, jarTxs')]_vars

-----------------------------------------------------------------------------
(* The chat bot: the dispatcher, the FSM states of the users, the handlers   *)
(* that ask for a family code and for a mono token                           *)

\* states.FamilyStates.code_enter and states.MonotokenStates.token_enter
code_enter == "FamilyStates:code_enter"
token_enter == "MonotokenStates:token_enter"

\* The commands of the message handlers registered with state="*", which the
\* dispatcher tries before the handlers of the two FSM states.
Commands ==
    {<<"s", "t", "a", "r", "t">>,
     <<"h", "e", "l", "p">>,
     <<"m", "o", "n", "o", "j", "a", "r", "s">>,
     <<"d", "a", "i", "l", "y", "_", "r", "e", "p", "o", "r", "t">>,
     <<"f", "a", "m", "i", "l", "y">>,
     <<"r", "e", "g", "i", "s", "t", "e", "r">>,
     <<"t", "o", "k", "e", "n", "_", "a", "d", "d">>,
     <<"h", "e", "l", "l", "o">>}

BotLower == <<"a", "b", "c", "d">>
BotUpper == <<"A", "B", "C", "D">>

\* str.upper()
upper(s) ==
    [i \in 1..Len(s) |->
        IF \E k \in 1..Len(BotLower) : BotLower[k] = s[i]
        THEN BotUpper[CHOOSE k \in 1..Len(BotLower) : BotLower[k] = s[i]]
        ELSE s[i]]

\* str.strip()
RECURSIVE strip(_)
strip(s) ==
    IF s = <<>> THEN s
    ELSE IF s[1] = " " THEN strip(Tail(s))
    ELSE IF s[Len(s)] = " " THEN strip(SubSeq(s, 1, Len(s) - 1))
    ELSE s

\* The command of a message text: the word after a leading "/".
CommandOf(message_text) ==
    IF message_text # <<>> /\ message_text[1] = "/"
    THEN LET rest == Tail(message_text)
             ends == {i \in 1..Len(rest) : rest[i] = " "}
             stop == IF ends = {} THEN Len(rest) + 1
                     ELSE CHOOSE i \in ends : \A j \in ends : i <= j
         IN  Some(SubSeq(rest, 1, stop - 1))
    ELSE None

\* What a handler did: the update it handled, the request it sent to the API
\* (requested, with the status of the answer) and the handler's name; "" when
\* no handler took the update.
Handled(op, event, user, message_text, requested, status) ==
    [op |-> op, event |-> event, user |-> user, text |-> message_text,
     requested |-> requested, status |-> status, exc |-> ""]

\* state.reset_state() of family_code_entered, token and cancel
reset_state(user) == [chat EXCEPT ![user] = None]

\* family_code_entered: the state is reset first; a code that is empty or
\* shorter than 4 characters is refused without a request; otherwise the
\* proposal is posted and the answer (201, 404, 400 or another status) told.
family_code_entered(user, message_text, status) ==
    LET code == upper(strip(message_text))
    IN  IF code = <<>> \/ Len(code) < 4
        THEN Handled("family_code_entered", "message", user, message_text, FALSE, 0)
        ELSE Handled("family_code_entered", "message", user, message_text, TRUE, status)

\* token: the state is reset first, then the text is posted as the mono token.
token(user, message_text, status) ==
    Handled("token", "message", user, message_text, TRUE, status)

\* The dispatcher's choice among the message handlers, in the order of their
\* registration: the command handlers (any state), family_code_entered (state
\* code_enter), echo (no state), token (state token_enter).  Every handler
\* takes text messages only.
MessageHandler(user, message_text) ==
    IF CommandOf(message_text) # None /\ ValueOf(CommandOf(message_text)) \in Commands
    THEN "command"
    ELSE IF chat[user] = Some(code_enter) THEN "family_code_entered"
    ELSE IF chat[user] = None THEN "echo"
    ELSE IF chat[user] = Some(token_enter) THEN "token"
    ELSE ""

\* A text message of the user arrives; `status` is what the API answers if it
\* is asked.
Message(user, message_text, status) ==
    /\ LET h == MessageHandler(user, message_text)
       IN  CASE h = "family_code_entered" ->
                  /\ chat' = reset_state(user)
                  /\ last' = family_code_entered(user, message_text, status)
             [] h = "token" ->
                  /\ chat' = reset_state(user)
                  /\ last' = token(user, message_text, status)
             [] OTHER ->
                  /\ chat' = chat
                  /\ last' = Handled(h, "message", user, message_text, FALSE, 0)
    /\ UNCHANGED <<tables, tasks, sync, family, beat, manager, requests, syncLog>>

\* A message without text (a photo, a sticker) arrives: the handlers take
\* text messages only, so none takes it.
OtherMessage(user) ==
    /\ last' = Handled("", "message", user, <<>>, FALSE, 0)
    /\ UNCHANGED <<tables, tasks, sync, family, beat, manager, requests, syncLog, chat>>

\* The callback handlers are registered without `state`: the dispatcher gives
\* them the presses of users who are in no state.
CallbackHandler(user, data) == IF chat[user] = None THEN data ELSE ""

\* The user presses an inline button: "family_enter_code" (family_enter_code),
\* "add_mono_token" (add_monotoken) or "cancel" (cancel).
Callback(user, data) ==
    /\ LET h == CallbackHandler(user, data)
       IN  /\ chat' = CASE h = "family_enter_code" -> [chat EXCEPT ![user] = Some(code_enter)]
                        [] h = "add_mono_token" -> [chat EXCEPT ![user] = Some(token_enter)]
                        [] h = "cancel" -> reset_state(user)
                        [] OTHER -> chat
           /\ last' = Handled(h, data, user, <<>>, FALSE, 0)
    /\ UNCHANGED <<tables, tasks, sync, family, beat, manager, requests, syncLog>>

\* The texts the users send: codes of 3 and 4 letters, one in spaces, and the
\* command /help.
MessageTexts ==
    {<<"a", "b", "c">>, <<"a", "b", "c", "d">>, <<" ", "a", "b", " ">>,
     <<"/", "h", "e", "l", "p">>}

Buttons == {"family_enter_code", "add_mono_token", "cancel"}

\* What the API answers to a proposal or a token.
ApiStatuses == {201, 400, 404}

InitBot ==
    /\ InitCatalogue
    /\ cards = {}
    /\ jars = {}
    /\ monoTxs = {}
    /\ jarTxs = {}
    /\ tasks = EmptyBag
    /\ sync = Idle
    /\ NoBeat
    /\ manager = NewManager
    /\ requests = NoRequests
    /\ syncLog = NoSync
    /\ chat = NoChats
    /\ family = {}
    /\ last = Answer("init", 0, "")

NextBot ==
    \/ \E u \in ChatUsers, m \in MessageTexts, s \in ApiStatuses : Message(u, m, s)
    \/ \E u \in ChatUsers : OtherMessage(u)
    \/ \E u \in ChatUsers, b \in Buttons : Callback(u, b)

SpecBot == InitBot /\ [][NextBot]_vars


-----------------------------------------------------------------------------
(* Claims about the input states of the chat bot (SpecBot) *)

\* The step is a message of the user or the user's press of "cancel".
C30_MessageOrCancel ==
    last'.event \in {"message", "cancel"}

\* The handlers that treat a message as a family code or as a mono token.
C30_InputHandlers == {"family_code_entered", "token"}

\* The code the family handler makes of the text is refused locally.
C30_RefusedLocally(message_text) == Len(upper(strip(message_text))) < 4

\* C30: the input states are one-shot.  A user is in FamilyStates.code_enter
\* or MonotokenStates.token_enter only from pressing "Enter code" or "add mono
\* token" to the user's next message or cancel; the handler of that message
\* resets the state before it validates or asks the API, so the state is
\* cleared whether the input is refused locally (a family code that is empty or
\* shorter than 4 characters, for which no request is sent), refused by the API
\* or accepted, and the message after it is not treated as a code or token.
C30_OneShotInput ==
    /\ [][C30_MessageOrCancel => chat'[last'.user] = None]_vars
    /\ [][last'.op \in C30_InputHandlers =>
            /\ chat[last'.user] # None /\ chat'[last'.user] = None
            /\ (last'.op = "family_code_entered" /\ C30_RefusedLocally(last'.text))
                  => ~last'.requested]_vars
    /\ [][(last.op \in C30_InputHandlers /\ last'.event = "message"
             /\ last'.user = last.user)
            => last'.op \notin C30_InputHandlers]_vars

\* The part about the two handlers on its own: each resets the state of its
\* user whatever becomes of the input, and a family code that is refused
\* locally is not sent.
C30_HandlersReset ==
    [][last'.op \in C30_InputHandlers =>
            /\ chat[last'.user] # None /\ chat'[last'.user] = None
            /\ (last'.op = "family_code_entered" /\ C30_RefusedLocally(last'.text))
                  => ~last'.requested]_vars

====
